---------------------------- MODULE Spec2Model ----------------------------
(***************************************************************************)
(* A verification model of the sportsPredictor repository.                 *)
(*                                                                         *)
(* Part I   (SpecApi, SpecApiFair): the FastAPI bridge of                  *)
(*          src/api/server.py: worker threads running callables under the  *)
(*          process-wide cwd_lock with the working directory switched to   *)
(*          NFL_DIR.                                                       *)
(* Part II  (SpecData, SpecRT): the flat file nflData.txt, written by      *)
(*          src/NFL/dataextract.py and read back by read_nfl_data of       *)
(*          src/NFL/predictor.py, character by character.                  *)
(* Part III (SpecStats, SpecPyth): the statistics and the rule-based       *)
(*          prediction of the NFL, CFB and MLB predictor.py.               *)
(***************************************************************************)
EXTENDS Integers, Sequences, FiniteSets, TLC

VARIABLES
    \* ---- Part I: src/api/server.py ----
    pc,            \* pc[r]: where request r's worker thread is
    cwd_lock,      \* the holder of cwd_lock, or NoHolder
    cwd,           \* the process-wide current working directory
    previous_cwd,  \* previous_cwd[r]: run_in_nfl_context's local of request r
    outcome,       \* outcome[r]: how the callable of request r ended
    start_cwd,     \* the working directory the server process was started in
    \* ---- Part II: src/NFL/dataextract.py, read_nfl_data ----
    completed,     \* the games the ESPN API reports as final
    nflData,       \* the flat file nflData.txt
    all_games,     \* the list of games the extractor scraped last
    teams_data,    \* what the last call of read_nfl_data returned
    runs,          \* how many extractor runs there were
    \* ---- Part III: calculate_team_averages, advanced_prediction ----
    schedule,      \* the games of the data file the predictor works from
    called,        \* the call made on the parsed data, with its arguments
    response       \* what that call returned, or the exception it raised

apiVars == <<pc, cwd_lock, cwd, previous_cwd, outcome, start_cwd>>

dataVars == <<completed, nflData, all_games, teams_data, runs>>

statVars == <<schedule, called, response>>

vars == <<pc, cwd_lock, cwd, previous_cwd, outcome, start_cwd,
          completed, nflData, all_games, teams_data, runs,
          schedule, called, response>>

\* {}: the empty dict
EmptyDict == [k \in {} |-> k]

\* A missing nflData.txt, and a file with the given lines.
NoFile == [exists |-> FALSE, lines |-> <<>>]

FileOf(lines) == [exists |-> TRUE, lines |-> lines]

\* What a call of read_nfl_data returned: nothing yet (no call so far), None
\* (FileNotFoundError) or the teams_data dict.
NotCalled == [returned |-> "nothing", data |-> EmptyDict]

ReturnedNone == [returned |-> "None", data |-> EmptyDict]

\* No game is final, nflData.txt does not exist, nothing was read.
DataQuiet ==
    /\ completed = {}
    /\ nflData = NoFile
    /\ all_games = <<>>
    /\ teams_data = NotCalled
    /\ runs = 0

\* No call was made on the parsed data.
NoCall == [fn |-> "none"]

NoResult == [returned |-> "nothing"]

StatsQuiet ==
    /\ schedule = <<>>
    /\ called = NoCall
    /\ response = NoResult

---------------------------------------------------------------------------
(***************************************************************************)
(* Part I: run_in_nfl_context / run_blocking (src/api/server.py:97-113)     *)
(***************************************************************************)

\* Number of API requests in flight (each is served by one worker thread
\* started by asyncio.to_thread).
NumRequests == 3

Requests == 1..NumRequests

\* cwd_lock = threading.Lock(): created unlocked.
NoHolder == 0

\* The directories the process can be in: NFL_DIR and any other directory
\* the server may have been launched from.
NFL_DIR == "NFL_DIR"

Dirs == {"BASE_DIR", NFL_DIR}

InitApi ==
    /\ pc = [r \in Requests |-> "idle"]
    /\ cwd_lock = NoHolder
    /\ start_cwd \in Dirs
    /\ cwd = start_cwd
    /\ previous_cwd = [r \in Requests |-> "unset"]
    /\ outcome = [r \in Requests |-> "none"]
    /\ DataQuiet
    /\ StatsQuiet

\* An endpoint awaits run_blocking(fn): asyncio.to_thread starts
\* run_in_nfl_context in a worker thread, which reaches "with cwd_lock".
run_blocking(r) ==
    /\ pc[r] = "idle"
    /\ pc' = [pc EXCEPT ![r] = "waiting"]
    /\ UNCHANGED <<cwd_lock, cwd, previous_cwd, outcome, start_cwd>>
    /\ UNCHANGED dataVars
    /\ UNCHANGED statVars

LockFreeNoExclusion(r) == TRUE

\* threading.Lock.acquire() succeeds only while nobody holds the lock.
LockFree(r) == cwd_lock = NoHolder

\* with cwd_lock:  (entry)
Acquire(r) ==
    /\ pc[r] = "waiting"
    /\ LockFree(r)
    /\ cwd_lock' = r
    /\ pc' = [pc EXCEPT ![r] = "locked"]
    /\ UNCHANGED <<cwd, previous_cwd, outcome, start_cwd>>
    /\ UNCHANGED dataVars
    /\ UNCHANGED statVars

\* previous_cwd = Path.cwd()
SaveCwd(r) ==
    /\ pc[r] = "locked"
    /\ previous_cwd' = [previous_cwd EXCEPT ![r] = cwd]
    /\ pc' = [pc EXCEPT ![r] = "saved"]
    /\ UNCHANGED <<cwd_lock, cwd, outcome, start_cwd>>
    /\ UNCHANGED dataVars
    /\ UNCHANGED statVars

ChdirTargetStay(r) == cwd

\* os.chdir(NFL_DIR)
ChdirTarget(r) == NFL_DIR

Chdir(r) ==
    /\ pc[r] = "saved"
    /\ cwd' = ChdirTarget(r)
    /\ pc' = [pc EXCEPT ![r] = "running"]
    /\ UNCHANGED <<cwd_lock, previous_cwd, outcome, start_cwd>>
    /\ UNCHANGED dataVars
    /\ UNCHANGED statVars

\* return fn(*args, **kwargs): the callable returns normally ...
FnReturn(r) ==
    /\ pc[r] = "running"
    /\ outcome' = [outcome EXCEPT ![r] = "returned"]
    /\ pc' = [pc EXCEPT ![r] = "finally"]
    /\ UNCHANGED <<cwd_lock, cwd, previous_cwd, start_cwd>>
    /\ UNCHANGED dataVars
    /\ UNCHANGED statVars

\* ... or raises (ValueError, FileNotFoundError, any Exception).
FnRaise(r) ==
    /\ pc[r] = "running"
    /\ outcome' = [outcome EXCEPT ![r] = "raised"]
    /\ pc' = [pc EXCEPT ![r] = "finally"]
    /\ UNCHANGED <<cwd_lock, cwd, previous_cwd, start_cwd>>
    /\ UNCHANGED dataVars
    /\ UNCHANGED statVars

RestoreTargetOnReturnOnly(r) ==
    IF outcome[r] = "raised" THEN cwd ELSE previous_cwd[r]

\* finally: os.chdir(previous_cwd), on both the normal and the raising path
RestoreTarget(r) == previous_cwd[r]

Restore(r) ==
    /\ pc[r] = "finally"
    /\ cwd' = RestoreTarget(r)
    /\ pc' = [pc EXCEPT ![r] = "restored"]
    /\ UNCHANGED <<cwd_lock, previous_cwd, outcome, start_cwd>>
    /\ UNCHANGED dataVars
    /\ UNCHANGED statVars

LockKeptOnExit(r) == r

\* leaving the with block releases cwd_lock
LockOnExit(r) == NoHolder

Release(r) ==
    /\ pc[r] = "restored"
    /\ cwd_lock' = LockOnExit(r)
    /\ pc' = [pc EXCEPT ![r] = "done"]
    /\ UNCHANGED <<cwd, previous_cwd, outcome, start_cwd>>
    /\ UNCHANGED dataVars
    /\ UNCHANGED statVars

\* The steps of request r's worker thread inside run_in_nfl_context.
Worker(r) ==
    \/ Acquire(r)
    \/ SaveCwd(r)
    \/ Chdir(r)
    \/ FnReturn(r)
    \/ FnRaise(r)
    \/ Restore(r)
    \/ Release(r)

NextApi == \E r \in Requests : run_blocking(r) \/ Worker(r)

SpecApi == InitApi /\ [][NextApi]_vars

\* Thread scheduling: a worker thread that can take a step eventually takes
\* it; every callable eventually returns or raises.
SpecApiFair == SpecApi /\ \A r \in Requests : WF_vars(Worker(r))

InLockRegion(r) == pc[r] \in {"locked", "saved", "running", "finally", "restored"}

\* C1: at most one worker thread at a time executes its callable inside
\* run_in_nfl_context (and at most one is anywhere between acquiring and
\* releasing cwd_lock, and it is the holder).
C1_Serialized ==
    /\ Cardinality({r \in Requests : pc[r] = "running"}) <= 1
    /\ \A r, s \in Requests : (InLockRegion(r) /\ InLockRegion(s)) => r = s
    /\ \A r \in Requests : InLockRegion(r) => cwd_lock = r

\* A callable is running while another request is blocked on cwd_lock.
C1_Witness ==
    \E r, s \in Requests :
        r # s /\ pc[r] = "running" /\ pc[s] = "waiting" /\ cwd_lock = r

C3_CwdIsNflDirWhileRunning ==
    \A r \in Requests : pc[r] = "running" => cwd = NFL_DIR

\* A callable runs in NFL_DIR in a process started elsewhere, after another
\* request already finished (and restored the cwd) and with one waiting.
C3_Witness ==
    \E r, s \in Requests :
        /\ r # s /\ pc[r] = "running" /\ pc[s] = "done"
        /\ start_cwd # NFL_DIR /\ cwd = NFL_DIR

\* C4: on exit (normal or raising) the cwd is the one found when the lock
\* was acquired, so whenever cwd_lock is free the cwd is the start directory.
C4_CwdRestored ==
    /\ cwd_lock = NoHolder => cwd = start_cwd
    /\ \A r \in Requests :
          pc[r] \in {"restored", "done"} => previous_cwd[r] = start_cwd
    /\ \A r \in Requests : pc[r] = "restored" => cwd = previous_cwd[r]

\* A callable raised, the lock is free again and the cwd is back.
C4_Witness ==
    \E r \in Requests :
        /\ pc[r] = "done" /\ outcome[r] = "raised"
        /\ cwd_lock = NoHolder /\ start_cwd # NFL_DIR /\ cwd = start_cwd


---------------------------------------------------------------------------
(***************************************************************************)
(* Text.  A Python str is modelled as a sequence of one-character strings, *)
(* and the str methods the writer and the parsers use are computed on it.  *)
(***************************************************************************)

\* pat in s
Contains(s, pat) ==
    \E i \in 1..(Len(s) - Len(pat) + 1) :
        /\ s[i] = pat[1]
        /\ SubSeq(s, i, i + Len(pat) - 1) = pat

\* s.startswith(pat)
StartsWith(s, pat) == Len(s) >= Len(pat) /\ SubSeq(s, 1, Len(pat)) = pat

\* s.find(pat), 1-based; 0 when pat does not occur (Python: -1)
Find(s, pat) ==
    LET hits == {i \in 1..(Len(s) - Len(pat) + 1) :
                    s[i] = pat[1] /\ SubSeq(s, i, i + Len(pat) - 1) = pat}
    IN  IF hits = {} THEN 0 ELSE CHOOSE i \in hits : \A j \in hits : i <= j

\* s[k:] for the 0-based Python index k = (1-based position) - 1
From(s, pos) == SubSeq(s, pos, Len(s))

IsSpace(c) == c \in {" ", "\n", "\t", "\r"}

RECURSIVE FirstKept(_, _)
\* The position of the first non-blank character of s at or after i
\* (Len(s) + 1 when there is none)
FirstKept(s, i) ==
    IF i > Len(s) THEN i ELSE IF IsSpace(s[i]) THEN FirstKept(s, i + 1) ELSE i

RECURSIVE LastKept(_, _)
\* The position of the last non-blank character of s at or before i (0 when
\* there is none)
LastKept(s, i) ==
    IF i < 1 THEN i ELSE IF IsSpace(s[i]) THEN LastKept(s, i - 1) ELSE i

\* s.strip()
Strip(s) == SubSeq(s, FirstKept(s, 1), LastKept(s, Len(s)))

RECURSIVE Split(_, _)
\* s.split(sep): the list of the pieces of s between occurrences of sep
Split(s, sep) ==
    LET k == Find(s, sep)
    IN  IF k = 0 THEN <<s>>
        ELSE <<SubSeq(s, 1, k - 1)>> \o Split(From(s, k + Len(sep)), sep)

RECURSIVE Remove(_, _)
\* s.replace(old, '')
Remove(s, old) ==
    LET k == Find(s, old)
    IN  IF k = 0 THEN s
        ELSE SubSeq(s, 1, k - 1) \o Remove(From(s, k + Len(old)), old)

Digits == <<"0", "1", "2", "3", "4", "5", "6", "7", "8", "9">>

IsDigit(c) == \E d \in 1..10 : Digits[d] = c

DigitVal(c) == (CHOOSE d \in 1..10 : Digits[d] = c) - 1

RECURSIVE NatVal(_)
NatVal(s) == IF s = <<>> THEN 0
             ELSE 10 * NatVal(SubSeq(s, 1, Len(s) - 1)) + DigitVal(s[Len(s)])

IsNatStr(s) == s # <<>> /\ \A i \in 1..Len(s) : IsDigit(s[i])

\* int(s) succeeds: optional surrounding blanks, optional sign, digits
IntOk(s) ==
    LET t == Strip(s)
    IN  /\ t # <<>>
        /\ IF t[1] \in {"-", "+"} THEN IsNatStr(Tail(t)) ELSE IsNatStr(t)

\* int(s), where IntOk(s)
IntVal(s) ==
    LET t == Strip(s)
    IN  IF t[1] = "-" THEN 0 - NatVal(Tail(t))
        ELSE IF t[1] = "+" THEN NatVal(Tail(t))
        ELSE NatVal(t)

RECURSIVE IntToStr(_)
\* str(n) for n >= 0: how a score appears in the API's JSON and in f-strings
IntToStr(n) == IF n < 10 THEN <<Digits[n + 1]>>
               ELSE IntToStr(n \div 10) \o <<Digits[(n % 10) + 1]>>

\* float(s) succeeds: optional sign, digits with at most one decimal point
FloatOk(s) ==
    LET t == Strip(s)
        u == IF t # <<>> /\ t[1] \in {"-", "+"} THEN Tail(t) ELSE t
        p == Split(u, <<".">>)
    IN  /\ Len(p) <= 2
        /\ \A k \in 1..Len(p) : \A i \in 1..Len(p[k]) : IsDigit(p[k][i])
        /\ \E k \in 1..Len(p) : p[k] # <<>>

\* The value of float(s), where FloatOk(s), as <<numerator, denominator>>.
FloatVal(s) ==
    LET t == Strip(s)
        neg == t[1] = "-"
        u == IF t[1] \in {"-", "+"} THEN Tail(t) ELSE t
        p == Split(u, <<".">>)
        frac == IF Len(p) = 2 THEN p[2] ELSE <<>>
        n == NatVal(p[1] \o frac)
    IN  <<IF neg THEN 0 - n ELSE n, 10 ^ Len(frac)>>

\* d.get(k, default) on a dict modelled as a function
Get(d, k, default) == IF k \in DOMAIN d THEN d[k] ELSE default

---------------------------------------------------------------------------
(***************************************************************************)
(* Part II: the NFL flat file.  src/NFL/dataextract.py writes nflData.txt  *)
(* (scrape_nfl_scores, write_to_file, update_mode) and read_nfl_data of    *)
(* src/NFL/predictor.py parses it back.  The file is the sequence of its   *)
(* lines (every f.write of the writer ends its text with a newline).       *)
(***************************************************************************)

\* '=' * 100
Rule == [i \in 1..100 |-> "="]

\* The week-header block both writers emit when game['week'] changes.
WeekHeader(week) == <<<<>>, Rule, week, Rule, <<>>>>

\* f"[{game['week']}] {away['name']} @ {home['name']} | {away['score']}-{home['score']} | {game['status']}"
GameLine(game) ==
    <<"[">> \o game.week \o <<"]", " ">> \o game.away_team.name \o <<" ", "@", " ">> \o game.home_team.name
        \o <<" ", "|", " ">> \o game.away_team.score \o <<"-">> \o game.home_team.score
        \o <<" ", "|", " ">> \o game.status

\* f"  {side} QB ({qb['name']}): {qb['comp_att']} for {qb['yards']}yds, {qb['tds']}TD/{qb['ints']}INT, {qb['ypa']} YPA, {qb['qb_rating']} RTG"
QBLine(side, qb) ==
    <<" ", " ">> \o side \o <<" ", "Q", "B", " ", "(">> \o qb.name \o <<")", ":", " ">> \o qb.comp_att \o <<" ", "f", "o", "r", " ">> \o qb.yards
        \o <<"y", "d", "s", ",", " ">> \o qb.tds \o <<"T", "D", "/">> \o qb.ints \o <<"I", "N", "T", ",", " ">> \o qb.ypa \o <<" ", "Y", "P", "A", ",", " ">>
        \o qb.qb_rating \o <<" ", "R", "T", "G">>

\* The "Sacks:" field: sacksYardsLost.split('-')[0] if '-' in it else '0'
SacksField(stats) ==
    IF Contains(Get(stats, "sacksYardsLost", <<"0">>), <<"-">>)
    THEN Split(Get(stats, "sacksYardsLost", <<"0", "-", "0">>), <<"-">>)[1]
    ELSE <<"0">>

\* The team block: "  AWAY (name):" / "  HOME (name):" and its four stat lines.
StatLines(side, team) ==
    LET stats == Get(team, "stats", EmptyDict)
    IN  << <<" ", " ">> \o side \o <<" ", "(">> \o team.name \o <<")", ":">>,
           <<" ", " ", " ", " ", "T", "o", "t", "a", "l", " ", "Y", "a", "r", "d", "s", ":", " ">> \o Get(stats, "totalYards", <<"0">>)
               \o <<" ", "|", " ", "Y", "a", "r", "d", "s", "/", "P", "l", "a", "y", ":", " ">> \o Get(stats, "yardsPerPlay", <<"0">>)
               \o <<" ", "|", " ", "P", "o", "s", "s", "e", "s", "s", "i", "o", "n", ":", " ">> \o Get(stats, "possessionTime", <<"0", ":", "0", "0">>),
           <<" ", " ", " ", " ", "P", "a", "s", "s", "i", "n", "g", ":", " ">> \o Get(stats, "netPassingYards", <<"0">>)
               \o <<"y", "d", "s", " ", "(">> \o Get(stats, "completionAttempts", <<"0", "-", "0">>)
               \o <<")", " ", "|", " ", "R", "u", "s", "h", "i", "n", "g", ":", " ">> \o Get(stats, "rushingYards", <<"0">>)
               \o <<"y", "d", "s", " ", "(">> \o Get(stats, "yardsPerRushAttempt", <<"0", ".", "0">>)
               \o <<" ", "a", "v", "g", ")", " ", "|", " ", "1", "s", "t", " ", "D", "o", "w", "n", "s", ":", " ">> \o Get(stats, "firstDowns", <<"0">>),
           <<" ", " ", " ", " ", "3", "r", "d", " ", "D", "o", "w", "n", ":", " ">> \o Get(stats, "thirdDownEff", <<"0", "-", "0">>)
               \o <<" ", "|", " ", "4", "t", "h", " ", "D", "o", "w", "n", ":", " ">> \o Get(stats, "fourthDownEff", <<"0", "-", "0">>)
               \o <<" ", "|", " ", "R", "e", "d", " ", "Z", "o", "n", "e", ":", " ">> \o Get(stats, "redZoneAttempts", <<"0", "-", "0">>),
           <<" ", " ", " ", " ", "T", "u", "r", "n", "o", "v", "e", "r", "s", ":", " ">> \o Get(stats, "turnovers", <<"0">>)
               \o <<" ", "(", "I", "N", "T", ":", " ">> \o Get(stats, "interceptions", <<"0">>)
               \o <<",", " ", "F", "u", "m", ":", " ">> \o Get(stats, "fumblesLost", <<"0">>)
               \o <<")", " ", "|", " ", "S", "a", "c", "k", "s", ":", " ">> \o SacksField(stats)
               \o <<" ", "|", " ", "P", "e", "n", "a", "l", "t", "i", "e", "s", ":", " ">> \o Get(stats, "totalPenaltiesYards", <<"0", "-", "0">>) >>

\* Everything both writers emit for one game: the game line, the optional
\* QB lines, the two team blocks and the closing blank line.
GameBlock(game) ==
    <<GameLine(game)>>
        \o (IF "qb" \in DOMAIN game.away_team
            THEN <<QBLine(<<"A", "W", "A", "Y">>, game.away_team.qb)>> ELSE <<>>)
        \o (IF "qb" \in DOMAIN game.home_team
            THEN <<QBLine(<<"H", "O", "M", "E">>, game.home_team.qb)>> ELSE <<>>)
        \o StatLines(<<"A", "W", "A", "Y">>, game.away_team)
        \o StatLines(<<"H", "O", "M", "E">>, game.home_team)
        \o << <<>> >>

RECURSIVE GameLines(_, _)
\* The loop over the games: a week header whenever the label changes, then
\* the game's block.  current_week is the loop's variable (None: <<>>).
GameLines(games, current_week) ==
    IF games = <<>> THEN <<>>
    ELSE LET game == Head(games)
         IN  (IF game.week # current_week THEN WeekHeader(game.week) ELSE <<>>)
                 \o GameBlock(game)
                 \o GameLines(Tail(games), game.week)

\* The first line of the file; the timestamp's digits are irrelevant to every
\* reader and are written as a fixed text.
TitleLine == <<"N", "F", "L", " ", "G", "a", "m", "e", " ", "D", "a", "t", "a", " ", "-", " ", "L", "a", "s", "t", " ", "U", "p", "d", "a", "t", "e", "d", ":", " ", "2", "0", "2", "4", "-", "0", "9", "-", "1", "0", " ", "0", "8", ":", "0", "0", ":", "0", "0">>

\* write_to_file(games): the file it leaves (mode 'w': the old content is gone)
write_to_file(games) ==
    <<TitleLine, Rule, <<>>>>
        \o (IF games = <<>>
            THEN <<<<"N", "o", " ", "g", "a", "m", "e", " ", "d", "a", "t", "a", " ", "a", "v", "a", "i", "l", "a", "b", "l", "e", ".">>>>
            ELSE GameLines(games, <<>>)
                   \o << <<>>, Rule, <<"T", "o", "t", "a", "l", " ", "g", "a", "m", "e", "s", " ", "r", "e", "c", "o", "r", "d", "e", "d", ":", " ">> \o IntToStr(Len(games)) >>)

---------------------------------------------------------------------------
(***************************************************************************)
(* read_nfl_data (src/NFL/predictor.py:44-423).  Line indices are 1-based  *)
(* here: Python's lines[i] is lines[i + 1] of the model, and "i < len"     *)
(* reads "i <= Len(lines)".                                                *)
(*                                                                         *)
(* A parsed GameRecord carries the fields the code stores except the two   *)
(* stat bags off_stats and def_stats (the four detail lines of each team   *)
(* block are consumed exactly as the code consumes them, their numbers are *)
(* not kept), and two ghost fields the code does not have:                 *)
(*   src  - the index of the game line the record was created from,        *)
(*   week - the parser's current_week when the record was created.         *)
(***************************************************************************)

\* The QB-line parse of lines 95-125 / 130-160: the dict it builds, or {}
\* when any step raised (the bare "except: pass").
parse_qb(qb_line) ==
    LET by_paren == Split(qb_line, <<"(">>)
        by_close == Split(qb_line, <<")", ":">>)
        qb_data  == Strip(by_close[2])
        parts    == Split(qb_data, <<",">>)
        by_for   == Split(parts[1], <<"f", "o", "r">>)
        comp_att == Strip(by_for[1])
        yards    == Strip(Remove(by_for[2], <<"y", "d", "s">>))
        td_int   == Split(Strip(parts[2]), <<"/">>)
        tds      == Strip(Remove(td_int[1], <<"T", "D">>))
        ints     == Strip(Remove(td_int[2], <<"I", "N", "T">>))
        ypa      == Strip(Remove(parts[3], <<"Y", "P", "A">>))
        rating   == IF Len(parts) > 3 THEN Strip(Remove(parts[4], <<"R", "T", "G">>)) ELSE <<"0", ".", "0">>
        ok == /\ Len(by_paren) >= 2
              /\ Len(by_close) >= 2
              /\ Len(by_for) >= 2
              /\ Len(parts) >= 2
              /\ Len(td_int) >= 2
              /\ Len(parts) >= 3
              /\ IntOk(yards) /\ IntOk(tds) /\ IntOk(ints)
              /\ FloatOk(ypa) /\ FloatOk(rating)
    IN  IF ok
        THEN [comp_att |-> comp_att, yards |-> IntVal(yards), tds |-> IntVal(tds),
              ints |-> IntVal(ints), ypa |-> FloatVal(ypa), rating |-> FloatVal(rating)]
        ELSE EmptyDict

\* "if i < len(lines): ...; i += 1", for one detail line
SkipLine(lines, i) == IF i <= Len(lines) THEN i + 1 ELSE i

SkipFour(lines, i) == SkipLine(lines, SkipLine(lines, SkipLine(lines, SkipLine(lines, i))))

\* teams_data[team].append(rec), creating the list on first use
AddRecord(td, team, rec) ==
    IF team \in DOMAIN td
    THEN [t \in DOMAIN td |-> IF t = team THEN Append(td[t], rec) ELSE td[t]]
    ELSE [t \in DOMAIN td \cup {team} |-> IF t = team THEN <<rec>> ELSE td[t]]

AwayWonOrTied(away_score, home_score) == away_score >= home_score

\* "if away_score > home_score:" (line 344)
AwayWon(away_score, home_score) == away_score > home_score

\* "elif home_score > away_score:" (line 378)
HomeWon(away_score, home_score) == home_score > away_score

LoserRecordUnswapped(team, opponent, location, winner_score, loser_score, pre, qb, src, week) ==
    [opponent |-> opponent, location |-> location, result |-> "L",
     score_for |-> winner_score, score_against |-> loser_score,
     point_diff |-> winner_score - loser_score, preseason |-> pre,
     qb_stats |-> qb, src |-> src, week |-> week]

\* The dict appended for the winning team (lines 350-361, 384-395)
WinnerRecord(team, opponent, location, winner_score, loser_score, pre, qb, src, week) ==
    [opponent |-> opponent, location |-> location, result |-> "W",
     score_for |-> winner_score, score_against |-> loser_score,
     point_diff |-> winner_score - loser_score, preseason |-> pre,
     qb_stats |-> qb, src |-> src, week |-> week]

\* The dict appended for the losing team (lines 365-376, 399-410)
LoserRecord(team, opponent, location, winner_score, loser_score, pre, qb, src, week) ==
    [opponent |-> opponent, location |-> location, result |-> "L",
     score_for |-> loser_score, score_against |-> winner_score,
     point_diff |-> winner_score - loser_score, preseason |-> pre,
     qb_stats |-> qb, src |-> src, week |-> week]

\* Lines 343-410: the records of one game, appended winner first.
AddGameRecords(td, away_team, home_team, away_score, home_score, pre, away_qb, home_qb, src, week) ==
    IF AwayWon(away_score, home_score)
    THEN AddRecord(
            AddRecord(td, away_team,
                WinnerRecord(away_team, home_team, "away", away_score, home_score, pre, away_qb, src, week)),
            home_team,
            LoserRecord(home_team, away_team, "home", away_score, home_score, pre, home_qb, src, week))
    ELSE IF HomeWon(away_score, home_score)
    THEN AddRecord(
            AddRecord(td, home_team,
                WinnerRecord(home_team, away_team, "home", home_score, away_score, pre, home_qb, src, week)),
            away_team,
            LoserRecord(away_team, home_team, "away", home_score, away_score, pre, away_qb, src, week))
    ELSE td

\* Lines 72-83: the basic game info of a game line, with ok = FALSE when the
\* code raises (too few pieces, unpacking not exactly two, int() failing).
GameInfo(line) ==
    LET game_part == Strip(From(line, Find(line, <<"]">>) + 1))
        pieces    == Split(game_part, <<"|">>)
        teams     == Split(Strip(pieces[1]), <<"@">>)
        scores    == Split(Strip(pieces[2]), <<"-">>)
        ok == /\ Len(pieces) >= 2
              /\ Len(teams) = 2
              /\ Len(scores) = 2
              /\ IntOk(scores[1]) /\ IntOk(scores[2])
    IN  IF ok
        THEN [ok |-> TRUE, away_team |-> Strip(teams[1]), home_team |-> Strip(teams[2]),
              away_score |-> IntVal(scores[1]), home_score |-> IntVal(scores[2])]
        ELSE [ok |-> FALSE]

\* Lines 92-341: where i stands after the QB peeks and the two team blocks,
\* and the two QB dicts.
AfterDetails(lines, i) ==
    LET n == Len(lines)
        peek_idx == i + 1
        has_away_qb == peek_idx <= n /\ Contains(lines[peek_idx], <<"A", "W", "A", "Y", " ", "Q", "B">>)
        has_home_qb == peek_idx + 1 <= n /\ Contains(lines[peek_idx + 1], <<"H", "O", "M", "E", " ", "Q", "B">>)
        i1 == IF has_away_qb THEN i + 1 ELSE i
        i2 == IF has_home_qb THEN i1 + 1 ELSE i1
        i3 == IF i2 + 1 <= n /\ Contains(lines[i2 + 1], <<"A", "W", "A", "Y">>)
              THEN SkipFour(lines, i2 + 2) ELSE i2
        i4 == IF i3 <= n /\ Contains(lines[i3], <<"H", "O", "M", "E">>)
              THEN SkipFour(lines, i3 + 1) ELSE i3
    IN  [i |-> i4,
         away_qb_stats |-> IF has_away_qb THEN parse_qb(Strip(lines[peek_idx])) ELSE EmptyDict,
         home_qb_stats |-> IF has_home_qb THEN parse_qb(Strip(lines[peek_idx + 1])) ELSE EmptyDict]

\* One iteration of the while loop of lines 58-417, at Python's i + 1 = st.i:
\* a week header, a game line (with its detail lines) or any other line.
LoopBody(lines, st) ==
    LET i == st.i
        line == Strip(lines[i])
    IN  IF /\ ~Contains(line, <<"[">>)
           /\ Contains(line, <<"P", "R", "E", "S", "E", "A", "S", "O", "N", "_", "W", "E", "E", "K">>) \/ Contains(line, <<"R", "E", "G", "U", "L", "A", "R", "_", "W", "E", "E", "K">>)
        THEN [st EXCEPT !.i = i + 1, !.current_week = line,
                        !.is_preseason = Contains(line, <<"P", "R", "E", "S", "E", "A", "S", "O", "N">>)]
        ELSE IF StartsWith(line, <<"[">>) /\ Contains(line, <<"@">>) /\ Contains(line, <<"|">>)
        THEN LET g == GameInfo(line)
                 d == AfterDetails(lines, i)
             IN  IF ~g.ok
                 THEN [st EXCEPT !.i = i + 1]
                 ELSE [st EXCEPT !.i = d.i + 1,
                                 !.teams_data =
                                    AddGameRecords(st.teams_data, g.away_team, g.home_team,
                                        g.away_score, g.home_score, st.is_preseason,
                                        d.away_qb_stats, d.home_qb_stats, i, st.current_week)]
        ELSE [st EXCEPT !.i = i + 1]

RECURSIVE read_loop(_, _, _, _)
\* The while loop over the lines lo..hi: the body runs at every index the
\* loop variable i stops at (i only moves forward, so an index below st.i
\* was consumed by an earlier iteration).  The range is halved rather than
\* walked line by line; the iterations and their order are the same.
read_loop(lines, lo, hi, st) ==
    IF lo > hi THEN st
    ELSE IF lo = hi THEN (IF st.i = lo THEN LoopBody(lines, st) ELSE st)
    ELSE LET mid == (lo + hi) \div 2
             left == read_loop(lines, lo, mid, st)
         IN  IF left.i > hi THEN left ELSE read_loop(lines, mid + 1, hi, left)

\* read_nfl_data()
read_nfl_data(file) ==
    IF ~file.exists THEN ReturnedNone
    ELSE [returned |-> "dict",
          data |-> read_loop(file.lines, 1, Len(file.lines),
                             [i |-> 1, current_week |-> <<>>, is_preseason |-> FALSE,
                              teams_data |-> EmptyDict]).teams_data]

---------------------------------------------------------------------------
(***************************************************************************)
(* The ESPN API as the extractor sees it: a season's games, each in one    *)
(* scoreboard bucket (seasontype, week), and the subset `completed` of     *)
(* those the API reports with status STATUS_FINAL.                         *)
(***************************************************************************)

\* A passing line of the box score as get_game_details stores it (lines 120-129).
SampleQB(name) ==
    [name |-> name, comp_att |-> <<"1", "7", "/", "3", "4">>, yards |-> <<"2", "0", "4">>, ypa |-> <<"6", ".", "0">>,
     tds |-> <<"1">>, ints |-> <<"3">>, sacks_lost |-> <<"1", "-", "6">>, qb_rating |-> <<"4", "1", ".", "8">>]

\* A team's statistics dict as get_game_details stores it (lines 147-152).
SampleStats ==
    [totalYards |-> <<"3", "5", "2">>, yardsPerPlay |-> <<"5", ".", "4">>, possessionTime |-> <<"3", "1", ":", "1", "2">>,
     netPassingYards |-> <<"1", "9", "8">>, completionAttempts |-> <<"1", "7", "/", "3", "4">>,
     rushingYards |-> <<"1", "4", "0">>, yardsPerRushAttempt |-> <<"7", ".", "8">>, firstDowns |-> <<"2", "1">>,
     thirdDownEff |-> <<"5", "-", "1", "2">>, fourthDownEff |-> <<"0", "-", "1">>, redZoneAttempts |-> <<"2", "-", "3">>,
     turnovers |-> <<"3">>, interceptions |-> <<"2">>, fumblesLost |-> <<"1">>,
     sacksYardsLost |-> <<"2", "-", "1", "5">>, totalPenaltiesYards |-> <<"6", "-", "4", "5">>]

\* game_info['away_team'] / ['home_team'] of get_game_details: name and score
\* always, 'qb' only when the box score lists a passer, 'stats' only when it
\* lists the team.
TeamInfo(name, score, qb, stats) ==
    LET base == [name |-> name, score |-> IntToStr(score)]
        with_qb == IF qb THEN [k \in {"name", "score", "qb"} |->
                                 IF k = "qb" THEN SampleQB(<<"Q", "B", " ", "o", "f", " ">> \o name) ELSE base[k]]
                   ELSE base
    IN  IF stats THEN [k \in DOMAIN with_qb \cup {"stats"} |->
                         IF k = "stats" THEN SampleStats ELSE with_qb[k]]
        ELSE with_qb

Jets == <<"N", "e", "w", " ", "Y", "o", "r", "k", " ", "J", "e", "t", "s">>

Niners == <<"S", "a", "n", " ", "F", "r", "a", "n", "c", "i", "s", "c", "o", " ", "4", "9", "e", "r", "s">>

Giants == <<"N", "e", "w", " ", "Y", "o", "r", "k", " ", "G", "i", "a", "n", "t", "s">>

Rams == <<"L", "o", "s", " ", "A", "n", "g", "e", "l", "e", "s", " ", "R", "a", "m", "s">>

\* The season's games: the bucket the scoreboard lists each in and what the
\* summary endpoint returns for it once it is final.
Catalogue ==
    << [seasontype |-> 1, week |-> 3,
        away_team |-> TeamInfo(Jets, 10, TRUE, TRUE),
        home_team |-> TeamInfo(Niners, 7, TRUE, TRUE)],
       [seasontype |-> 2, week |-> 1,
        away_team |-> TeamInfo(Giants, 3, FALSE, FALSE),
        home_team |-> TeamInfo(Jets, 24, TRUE, FALSE)],
       [seasontype |-> 2, week |-> 1,
        away_team |-> TeamInfo(Niners, 20, FALSE, TRUE),
        home_team |-> TeamInfo(Rams, 20, FALSE, TRUE)],
       [seasontype |-> 2, week |-> 2,
        away_team |-> TeamInfo(Jets, 31, TRUE, TRUE),
        home_team |-> TeamInfo(Niners, 0, FALSE, TRUE)],
       [seasontype |-> 3, week |-> 1,
        away_team |-> TeamInfo(Rams, 17, TRUE, TRUE),
        home_team |-> TeamInfo(Jets, 14, TRUE, TRUE)] >>

GameIds == DOMAIN Catalogue

RECURSIVE SortedIds(_)
\* The ids of a set in the order the scoreboard lists them (ascending).
SortedIds(ids) ==
    IF ids = {} THEN <<>>
    ELSE LET least == CHOOSE g \in ids : \A h \in ids : g <= h
         IN  <<least>> \o SortedIds(ids \ {least})

\* get_games_for_week(season_type, week_num): the ids of the completed games
\* of one scoreboard bucket, in the API's order.  Weeks 19-22 are postseason
\* weeks 1-4.
get_games_for_week(season_type, week_num) ==
    LET post == week_num >= 19 /\ week_num <= 22
        actual_week == IF post THEN week_num - 18 ELSE week_num
        season_type_num == IF post \/ season_type = "postseason" THEN 3
                           ELSE IF season_type = "preseason" THEN 1
                           ELSE 2
        ids == {g \in completed : /\ Catalogue[g].seasontype = season_type_num
                                  /\ Catalogue[g].week = actual_week}
    IN  SortedIds(ids)

\* The label the extractor stores a week under (lines 193-199, 436-441)
week_label(season_type, week_num) ==
    IF season_type = "preseason"
    THEN <<"P", "R", "E", "S", "E", "A", "S", "O", "N", "_", "W", "E", "E", "K", "_">> \o IntToStr(week_num)
    ELSE <<"R", "E", "G", "U", "L", "A", "R", "_", "W", "E", "E", "K", "_">> \o IntToStr(week_num)

\* game_data of lines 225-232 / 464-471 for one game id
game_data(season_type, week_num, game_id) ==
    [week |-> week_label(season_type, week_num),
     away_team |-> Catalogue[game_id].away_team,
     home_team |-> Catalogue[game_id].home_team,
     status |-> <<"F", "i", "n", "a", "l">>]

\* One round of the loop "for season_type, week_num in weeks": the game_data
\* of every completed game of that week.
ScrapeWeek(season_type, week_num) ==
    LET game_ids == get_games_for_week(season_type, week_num)
    IN  [k \in 1..Len(game_ids) |-> game_data(season_type, week_num, game_ids[k])]

RECURSIVE ScrapeRange(_, _, _)
\* The rounds lo..hi of that loop, in order (the range is halved rather than
\* walked week by week; the result is the same list).
ScrapeRange(weeks, lo, hi) ==
    IF lo > hi THEN <<>>
    ELSE IF lo = hi THEN ScrapeWeek(weeks[lo][1], weeks[lo][2])
    ELSE LET mid == (lo + hi) \div 2
         IN  ScrapeRange(weeks, lo, mid) \o ScrapeRange(weeks, mid + 1, hi)

\* The whole loop: every completed game of every listed week, in order.
ScrapeWeeks(weeks) == ScrapeRange(weeks, 1, Len(weeks))

\* [(season_type, week) for week in range(lo, hi)]
WeekRange(season_type, lo, hi) == [k \in 1..(hi - lo) |-> <<season_type, lo + k - 1>>]

\* weeks_config of scrape_nfl_scores (lines 183-190)
weeks_config ==
    WeekRange("preseason", 1, 4) \o WeekRange("regular", 1, 19) \o WeekRange("postseason", 19, 23)

\* scrape_nfl_scores()
scrape_nfl_scores == ScrapeWeeks(weeks_config)

\* get_last_week_from_file(): the last line that names a week and holds
\* neither '[' nor '=', read as (season_type, week_number); found = FALSE
\* for None.
get_last_week_from_file(file) ==
    LET lines == file.lines
        hits == {i \in 1..Len(lines) :
                    /\ ~Contains(lines[i], <<"[">>)
                    /\ ~Contains(lines[i], <<"=">>)
                    /\ Contains(lines[i], <<"P", "R", "E", "S", "E", "A", "S", "O", "N", "_", "W", "E", "E", "K">>) \/ Contains(lines[i], <<"R", "E", "G", "U", "L", "A", "R", "_", "W", "E", "E", "K">>)}
        last == CHOOSE i \in hits : \A j \in hits : j <= i
        last_week == Strip(lines[last])
        pieces == Split(last_week, <<"_">>)
        week_num == IntVal(pieces[Len(pieces)])
    IN  IF ~file.exists \/ hits = {} \/ last_week = <<>>
        THEN [found |-> FALSE]
        ELSE IF Contains(last_week, <<"P", "R", "E", "S", "E", "A", "S", "O", "N">>)
        THEN [found |-> TRUE, season_type |-> "preseason", week_num |-> week_num]
        ELSE IF week_num >= 19
        THEN [found |-> TRUE, season_type |-> "postseason", week_num |-> week_num]
        ELSE [found |-> TRUE, season_type |-> "regular", week_num |-> week_num]

FromWeekOne(season_type, last_week_num) ==
    WeekRange("regular", 1, 19) \o WeekRange("postseason", 19, 23)

\* weeks_to_scrape of update_mode (lines 397-425)
weeks_to_scrape(season_type, last_week_num) ==
    IF season_type = "preseason"
    THEN WeekRange("preseason", last_week_num, 4)
            \o WeekRange("regular", 1, 19) \o WeekRange("postseason", 19, 23)
    ELSE IF season_type = "postseason"
    THEN WeekRange("postseason", last_week_num, 23)
    ELSE IF last_week_num < 19
    THEN WeekRange("regular", last_week_num, 19) \o WeekRange("postseason", 19, 23)
    ELSE WeekRange("postseason", last_week_num, 23)

---------------------------------------------------------------------------
(***************************************************************************)
(* The extractor and the parser as processes working on nflData.txt        *)
(* (SpecData), and the write/parse round trip of one game (SpecRT).        *)
(***************************************************************************)

\* Extractor runs explored.
MaxRuns == 2

\* The API bridge at rest, for the specifications that do not exercise it.
ApiQuiet ==
    /\ pc = [r \in Requests |-> "idle"]
    /\ cwd_lock = NoHolder
    /\ start_cwd = "BASE_DIR"
    /\ cwd = start_cwd
    /\ previous_cwd = [r \in Requests |-> "unset"]
    /\ outcome = [r \in Requests |-> "none"]

InitData == ApiQuiet /\ DataQuiet /\ StatsQuiet

\* A game ends: the API reports it as STATUS_FINAL from now on.
CompleteGame(g) ==
    /\ g \notin completed
    /\ completed' = completed \cup {g}
    /\ UNCHANGED <<nflData, all_games, teams_data, runs>>
    /\ UNCHANGED apiVars
    /\ UNCHANGED statVars

\* main(): games = scrape_nfl_scores(); write_to_file(games)
MainEffect ==
    /\ all_games' = scrape_nfl_scores
    /\ nflData' = FileOf(write_to_file(scrape_nfl_scores))

main ==
    /\ runs < MaxRuns
    /\ MainEffect
    /\ runs' = runs + 1
    /\ UNCHANGED <<completed, teams_data>>
    /\ UNCHANGED apiVars
    /\ UNCHANGED statVars

\* update_mode(): a full extraction when no last week is found, else the
\* games of weeks_to_scrape appended to the file (nothing when there are none)
update_mode ==
    /\ runs < MaxRuns
    /\ LET last == get_last_week_from_file(nflData)
       IN  IF ~last.found
           THEN MainEffect
           ELSE LET new_games == ScrapeWeeks(weeks_to_scrape(last.season_type, last.week_num))
                IN  /\ all_games' = new_games
                    /\ nflData' = IF new_games = <<>> THEN nflData
                                  ELSE FileOf(nflData.lines \o GameLines(new_games, <<>>))
    /\ runs' = runs + 1
    /\ UNCHANGED <<completed, teams_data>>
    /\ UNCHANGED apiVars
    /\ UNCHANGED statVars

\* The predictor (or the notebook) calls read_nfl_data().
ReadData ==
    /\ teams_data' = read_nfl_data(nflData)
    /\ UNCHANGED <<completed, nflData, all_games, runs>>
    /\ UNCHANGED apiVars
    /\ UNCHANGED statVars

NextData ==
    \/ \E g \in GameIds : CompleteGame(g)
    \/ main
    \/ update_mode
    \/ ReadData

SpecData == InitData /\ [][NextData]_vars

\* The round trip's inputs: one game_data dict, of any two of these teams,
\* any of these scores, with or without each QB line and stats dict, under a
\* preseason or a regular-season label.
RTTeams == {Jets, Niners, Giants}

RTScores == {0, 3, 10, 24}

RTWeeks == { <<"P", "R", "E", "S", "E", "A", "S", "O", "N", "_", "W", "E", "E", "K", "_", "2">>, <<"R", "E", "G", "U", "L", "A", "R", "_", "W", "E", "E", "K", "_", "1", "1">> }

RTGames ==
    { [week |-> w,
       away_team |-> TeamInfo(p[1], sa, qa, st),
       home_team |-> TeamInfo(p[2], sh, qh, st),
       status |-> <<"F", "i", "n", "a", "l">>] :
         w \in RTWeeks, p \in {q \in RTTeams \X RTTeams : q[1] # q[2]},
         sa \in RTScores, sh \in RTScores,
         qa \in BOOLEAN, qh \in BOOLEAN, st \in BOOLEAN }

InitRT ==
    /\ ApiQuiet
    /\ completed = {}
    /\ nflData = NoFile
    /\ \E g \in RTGames : all_games = <<g>>
    /\ teams_data = NotCalled
    /\ runs = 0
    /\ StatsQuiet

\* write_to_file(games) on the list of games
WriteFile ==
    /\ ~nflData.exists
    /\ nflData' = FileOf(write_to_file(all_games))
    /\ UNCHANGED <<completed, all_games, teams_data, runs>>
    /\ UNCHANGED apiVars
    /\ UNCHANGED statVars

NextRT == WriteFile \/ ReadData

SpecRT == InitRT /\ [][NextRT]_vars

\* The records a teams_data dict holds, as <<team, position>> pairs.
RecordPositions(data) ==
    UNION { {<<t, k>> : k \in 1..Len(data[t])} : t \in DOMAIN data }

\* A team's list holds a record of this game as seen from that team.
HasRecord(data, team, opponent, location, score_for, score_against) ==
    /\ team \in DOMAIN data
    /\ \E k \in 1..Len(data[team]) :
          /\ data[team][k].opponent = opponent
          /\ data[team][k].location = location
          /\ IntToStr(data[team][k].score_for) = score_for
          /\ IntToStr(data[team][k].score_against) = score_against

\* The parsed dict reproduces a written game: both team names and the score.
Reproduced(data, game) ==
    /\ HasRecord(data, game.away_team.name, game.home_team.name, "away",
                 game.away_team.score, game.home_team.score)
    /\ HasRecord(data, game.home_team.name, game.away_team.name, "home",
                 game.home_team.score, game.away_team.score)

\* C5: every game written by write_to_file is reproduced (score and both team
\* names) by read_nfl_data on the written file.
C5_RoundTrip ==
    teams_data.returned = "dict" =>
        \A k \in 1..Len(all_games) : Reproduced(teams_data.data, all_games[k])

\* C5, restricted to games with a winner: those are reproduced, whichever QB
\* lines and stats the game has.
C5_DecidedGamesRoundTrip ==
    teams_data.returned = "dict" =>
        \A k \in 1..Len(all_games) :
            all_games[k].away_team.score # all_games[k].home_team.score
                => Reproduced(teams_data.data, all_games[k])

\* A tied game was written and parsed: no team has a record.
C5_TieDropped ==
    /\ teams_data.returned = "dict"
    /\ all_games[1].away_team.score = all_games[1].home_team.score
    /\ DOMAIN teams_data.data = {}

\* C9: the records created from one game line are exactly two, one per team,
\* each naming the other as opponent, one 'home' and one 'away', with swapped
\* scores and exactly one 'W'; no game line leaves a single record.
C9_PairsAgree ==
    LET data == teams_data.data
        recs == RecordPositions(data)
        rec(p) == data[p[1]][p[2]]
    IN  \A p \in recs :
            LET pair == {q \in recs : rec(q).src = rec(p).src}
            IN  /\ Cardinality(pair) = 2
                /\ \E q \in pair :
                      /\ q # p
                      /\ rec(p).opponent = q[1]
                      /\ rec(q).opponent = p[1]
                      /\ {rec(p).location, rec(q).location} = {"home", "away"}
                      /\ rec(p).score_for = rec(q).score_against
                      /\ rec(p).score_against = rec(q).score_for
                      /\ {rec(p).result, rec(q).result} = {"W", "L"}

\* A file of several games was parsed, among them games with one QB line only.
C9_Witness ==
    /\ teams_data.returned = "dict"
    /\ {Jets, Niners, Giants} \subseteq DOMAIN teams_data.data
    /\ Len(teams_data.data[Jets]) >= 3
    /\ \E k \in 1..Len(teams_data.data[Jets]) :
          DOMAIN teams_data.data[Jets][k].qb_stats = {}

\* The place of a week label in the season: preseason weeks 1-3, then the
\* regular-season weeks 1-18 and the postseason weeks stored as 19-22.
ChronIndex(week) ==
    IF week = <<>> THEN 0
    ELSE LET pieces == Split(week, <<"_">>)
             n == IntVal(pieces[Len(pieces)])
         IN  IF Contains(week, <<"P", "R", "E", "S", "E", "A", "S", "O", "N">>) THEN n ELSE 3 + n

\* C10: every team's list of records is in non-decreasing week order.
C10_Chronological ==
    \A t \in DOMAIN teams_data.data :
        \A k \in 1..(Len(teams_data.data[t]) - 1) :
            ChronIndex(teams_data.data[t][k].week)
                <= ChronIndex(teams_data.data[t][k + 1].week)

\* After an extraction and an update, a team's list holds the re-checked last
\* week twice and a later week after it.
C10_Witness ==
    /\ runs >= 2
    /\ \E t \in DOMAIN teams_data.data :
          \E k \in 1..(Len(teams_data.data[t]) - 2) :
              /\ teams_data.data[t][k].week = teams_data.data[t][k + 1].week
              /\ ChronIndex(teams_data.data[t][k + 1].week)
                    < ChronIndex(teams_data.data[t][k + 2].week)


---------------------------------------------------------------------------
(***************************************************************************)
(* Part III: statistics and prediction (src/NFL/predictor.py,              *)
(* src/CFB/predictor.py, src/MLB/predictor.py, injuryextract.py)            *)
(*                                                                         *)
(* Python floats are fixed-point numbers here: an integer n stands for     *)
(* n / 1000, products and quotients are cut to three decimals.  Ratios     *)
(* the claims speak of (win_rate, the Pythagorean expectation) are kept    *)
(* as exact pairs <<numerator, denominator>>.                              *)
(***************************************************************************)

\* the fixed-point value of the ratio num / den (den > 0)
Milli(q) == (q[1] * 1000) \div q[2]

\* a / b for fixed-point a and b (b # 0)
Quot(a, b) == (a * 1000) \div b

\* a * b for fixed-point a and b
Prod(a, b) == (a * b) \div 1000

Abs(x) == IF x < 0 THEN -x ELSE x

Min(a, b) == IF a < b THEN a ELSE b

\* sum(values)
RECURSIVE Sum(_)
Sum(values) == IF values = <<>> THEN 0 ELSE Head(values) + Sum(Tail(values))

\* [f(g) for g in games]
Each(games, f(_)) == [i \in 1..Len(games) |-> f(games[i])]

\* sum(1 for g in games if test(g))
Count(games, test(_)) == Cardinality({i \in 1..Len(games) : test(games[i])})

\* games[-n:] if len(games) >= n else games
LastGames(games, n) ==
    IF Len(games) >= n THEN SubSeq(games, Len(games) - n + 1, Len(games)) ELSE games

\* x ** 2.37 and x ** 1.83 for whole x, one decimal kept: PowTable[x + 1] is
\* round(x ** e * 10)
Pow237 ==
    <<
       0, 10, 52, 135, 267, 453, 699, 1007, 1381, 1826,
       2344, 2938, 3611, 4366, 5204, 6128, 7141, 8244, 9441, 10731,
       12118, 13604, 15189, 16877, 18668, 20564, 22568, 24679, 26901, 29234,
       31679, 34239, 36915, 39708, 42619, 45650, 48802, 52076, 55474, 58996,
       62644, 66420, 70324, 74357, 78520, 82816, 87244, 91806, 96503, 101336,
       106306, 111414, 116662, 122049, 127577, 133248, 139061, 145018, 151121, 157369,
       163764, 170307, 176998, 183839, 190830, 197972, 205267, 212715, 220316, 228072,
       235984, 244052, 252277, 260660, 269203, 277904, 286766, 295790, 304975, 314323,
       323835, 333510, 343351, 353358, 363531, 373872, 384380, 395058, 405905, 416922,
       428109, 439469, 451001, 462705, 474584, 486637, 498865, 511268, 523849, 536606,
       549541, 562654, 575947, 589419, 603072, 616905, 630921, 645119, 659499, 674063,
       688812, 703745, 718864, 734169, 749660, 765339, 781206, 797261, 813505, 829939,
       846564, 863379, 880385, 897584, 914975, 932560, 950338, 968311, 986479, 1004842,
       1023401, 1042157, 1061110, 1080260, 1099609, 1119157, 1138904, 1158851, 1178999, 1199348,
       1219898, 1240650, 1261605, 1282763, 1304125, 1325691, 1347461, 1369437, 1391619, 1414007,
       1436601, 1459403, 1482413, 1505631, 1529059, 1552695, 1576541, 1600598, 1624865, 1649344,
       1674034 >>

Pow183 ==
    <<
       0, 10, 36, 75, 126, 190, 265, 352, 449, 558,
       676, 805, 944, 1093, 1251, 1420, 1598, 1785, 1982, 2188,
       2404, 2628, 2862, 3104, 3356, 3616, 3885, 4163, 4449, 4744,
       5048, 5360, 5681, 6010, 6348, 6693, 7047, 7410, 7780, 8159,
       8546, 8941, 9344, 9755, 10175, 10602, 11037, 11480, 11931, 12390,
       12856, 13331, 13813, 14303, 14801, 15306, 15819, 16340, 16868, 17404,
       17948, 18499, 19058, 19624, 20198, 20779, 21368, 21964, 22568, 23179,
       23797, 24423, 25056, 25697, 26345, 27000, 27662, 28332, 29009, 29693,
       30385, 31083, 31789, 32502, 33222, 33950, 34684, 35426, 36175, 36930,
       37693, 38463, 39240, 40024, 40815, 41613, 42419, 43231, 44050, 44876,
       45709, 46549, 47396, 48249, 49110, 49978, 50852, 51734, 52622, 53517,
       54419, 55328, 56243, 57165, 58095, 59031, 59973, 60923, 61879, 62842,
       63812, 64788, 65772, 66762, 67758, 68761, 69772, 70788, 71812, 72842,
       73878, 74922, 75971, 77028, 78091, 79161, 80237, 81320, 82410, 83506,
       84609, 85718, 86834, 87956, 89085, 90220, 91362, 92510, 93665, 94827,
       95995, 97169, 98350, 99537, 100731, 101931, 103138, 104351, 105570, 106796,
       108029 >>

\* 1.5 ** (i / len(values)) for i in range(len(values)), len(values) from 4 to 8
RecencyWeights ==
    [n \in 4..8 |-> CASE n = 4 -> <<1000, 1107, 1225, 1355>>
                      [] n = 5 -> <<1000, 1084, 1176, 1275, 1383>>
                      [] n = 6 -> <<1000, 1070, 1145, 1225, 1310, 1402>>
                      [] n = 7 -> <<1000, 1060, 1123, 1190, 1261, 1336, 1416>>
                      [] n = 8 -> <<1000, 1052, 1107, 1164, 1225, 1288, 1355, 1426>>]

\* The weighted sum without "weights = [w / total_weight for w in weights]":
\* weights that do not sum to 1.
unnormalized_weighted_average(values) ==
    IF values = <<>> THEN 0
    ELSE IF Len(values) <= 3 THEN Sum(values) \div Len(values)
    ELSE Sum([i \in 1..Len(values) |-> Prod(values[i], RecencyWeights[Len(values)][i])])

\* calculate_weighted_average(values): the plain mean of up to three values,
\* else the mean under weights growing to 1.5 times for the latest value
calculate_weighted_average(values) ==
    IF values = <<>> THEN 0
    ELSE IF Len(values) <= 3 THEN Sum(values) \div Len(values)
    ELSE LET weights == RecencyWeights[Len(values)]
             total_weight == Sum(weights)
             weighted == [i \in 1..Len(values) |-> values[i] * weights[i]]
         IN  Sum([i \in 1..Len(values) |-> weighted[i] \div total_weight])
             + Sum([i \in 1..Len(values) |-> weighted[i] % total_weight]) \div total_weight

\* a / b > t and a / b < t for the quotient q = <<a, b>> of two floats, b positive
Above(q, t) == q[1] * 1000 > t * q[2]

Below(q, t) == q[1] * 1000 < t * q[2]

\* An exception left the call.
Raised(exception) == [returned |-> exception]

\* (scored ** e) / ((scored ** e) + (allowed ** e)): float division raises
\* ZeroDivisionError on a zero divisor, and 0 ** e is 0.0
pythagorean_exp(pow, total_points_scored, total_points_allowed) ==
    LET scored == pow[total_points_scored + 1]
        allowed == pow[total_points_allowed + 1]
    IN  IF scored + allowed = 0 THEN Raised("ZeroDivisionError")
        ELSE [returned |-> "float", value |-> <<scored, scored + allowed>>]

(***************************************************************************)
(* The data the predictors work from.  A block is one game of the flat     *)
(* file as the parsers see it: the week header it stands under, the game   *)
(* line's teams and scores, and what the detail lines parse to (an empty   *)
(* dict where a line is missing or unreadable).                            *)
(***************************************************************************)

\* The stats of one side of a game: a strong, a middling and a weak outing.
\* Each sport's parser reads its own keys of them.
StrongGame ==
    [totalYards |-> 421000, yardsPerPlay |-> 6370, passingYards |-> 289000,
     completionRate |-> 683, rushingYards |-> 132000, rushingAvg |-> 5030,
     thirdDownRate |-> 493, redZoneRate |-> 752, turnovers |-> 0,
     interceptions |-> 0, sacks |-> 5000, penalties |-> 41,
     hits |-> 11000, errors |-> 0, avg |-> 311, obp |-> 382, slg |-> 523, hr |-> 2000]

MiddlingGame ==
    [totalYards |-> 337000, yardsPerPlay |-> 5410, passingYards |-> 214000,
     completionRate |-> 597, rushingYards |-> 123000, rushingAvg |-> 4310,
     thirdDownRate |-> 391, redZoneRate |-> 504, turnovers |-> 2000,
     interceptions |-> 1000, sacks |-> 3000, penalties |-> 102,
     hits |-> 8000, errors |-> 1000, avg |-> 262, obp |-> 331, slg |-> 412, hr |-> 1000]

WeakGame ==
    [totalYards |-> 253000, yardsPerPlay |-> 4230, passingYards |-> 152000,
     completionRate |-> 521, rushingYards |-> 101000, rushingAvg |-> 3290,
     thirdDownRate |-> 263, redZoneRate |-> 333, turnovers |-> 4000,
     interceptions |-> 2000, sacks |-> 1000, penalties |-> 133,
     hits |-> 5000, errors |-> 2000, avg |-> 213, obp |-> 284, slg |-> 334, hr |-> 0]

\* The dicts parse_qb fills: a good and a poor day of a quarterback.
GoodQB == [yards |-> 290000, tds |-> 3000, ints |-> 0, ypa |-> 8100, rating |-> 112500]

PoorQB == [yards |-> 150000, tds |-> 0, ints |-> 2000, ypa |-> 5200, rating |-> 61000]

Block(week, away_team, away_score, home_team, home_score, away_stats, home_stats, away_qb_stats, home_qb_stats) ==
    [week |-> week, away_team |-> away_team, away_score |-> away_score,
     home_team |-> home_team, home_score |-> home_score,
     away_stats |-> away_stats, home_stats |-> home_stats,
     away_qb_stats |-> away_qb_stats, home_qb_stats |-> home_qb_stats]

\* A season in the file's order: a preseason game, five of the regular
\* season (one without the home quarterback's line, one without any stats
\* line) and a postseason game.
Season ==
    << Block("PRESEASON", Jets, 10, Niners, 7, MiddlingGame, MiddlingGame, GoodQB, PoorQB),
       Block("REGULAR", Giants, 3, Jets, 24, WeakGame, StrongGame, PoorQB, GoodQB),
       Block("REGULAR", Niners, 27, Giants, 24, StrongGame, MiddlingGame, GoodQB, EmptyDict),
       Block("REGULAR", Jets, 31, Niners, 0, StrongGame, WeakGame, GoodQB, PoorQB),
       Block("REGULAR", Giants, 17, Niners, 14, EmptyDict, EmptyDict, PoorQB, PoorQB),
       Block("REGULAR", Jets, 13, Giants, 16, MiddlingGame, MiddlingGame, PoorQB, GoodQB),
       Block("POSTSEASON", Niners, 21, Jets, 28, StrongGame, StrongGame, GoodQB, GoodQB) >>

Teams == {Jets, Niners, Giants}

\* Games in the file the predictor reads.
MaxSeason == 4

\* The elements of a set of numbers in ascending order.
Ascending(S) ==
    [i \in 1..Cardinality(S) |-> CHOOSE x \in S : Cardinality({y \in S : y < x}) = i - 1]

\* The files: any games of the season, in the season's order.
Schedules ==
    { Ascending(S) : S \in {T \in SUBSET (1..Len(Season)) : Cardinality(T) <= MaxSeason} }

\* The keys each sport's parser fills in a stats dict.
StatKeys(sport) ==
    CASE sport = "NFL" -> {"totalYards", "yardsPerPlay", "passingYards", "completionRate",
                           "rushingYards", "rushingAvg", "thirdDownRate", "redZoneRate",
                           "turnovers", "interceptions", "sacks", "penalties"}
      [] sport = "CFB" -> {"totalYards", "yardsPerPlay", "passingYards", "rushingYards",
                           "thirdDownRate", "turnovers", "sacks"}
      [] sport = "MLB" -> {"hits", "errors", "avg", "obp", "slg", "hr"}

ParsedStats(sport, stats) == [k \in StatKeys(sport) \cap DOMAIN stats |-> stats[k]]

\* The record the parser appends for one side of a decided game.
GameRecord(sport, block, location, result) ==
    LET away == location = "away"
        opponent == IF away THEN block.home_team ELSE block.away_team
        score_for == IF away THEN block.away_score ELSE block.home_score
        score_against == IF away THEN block.home_score ELSE block.away_score
        off_stats == ParsedStats(sport, IF away THEN block.away_stats ELSE block.home_stats)
        def_stats == ParsedStats(sport, IF away THEN block.home_stats ELSE block.away_stats)
    IN  CASE sport = "NFL" ->
               [opponent |-> opponent, location |-> location, result |-> result,
                score_for |-> score_for, score_against |-> score_against,
                point_diff |-> Abs(score_for - score_against),
                preseason |-> block.week = "PRESEASON",
                off_stats |-> off_stats, def_stats |-> def_stats,
                qb_stats |-> IF away THEN block.away_qb_stats ELSE block.home_qb_stats]
          [] sport = "CFB" ->
               [opponent |-> opponent, location |-> location, result |-> result,
                score_for |-> score_for, score_against |-> score_against,
                point_diff |-> Abs(score_for - score_against),
                postseason |-> block.week = "POSTSEASON",
                off_stats |-> off_stats, def_stats |-> def_stats]
          [] sport = "MLB" ->
               [opponent |-> opponent, location |-> location, result |-> result,
                runs_for |-> score_for, runs_against |-> score_against,
                batting_stats |-> off_stats, opponent_batting |-> def_stats]

\* A dict keeps its keys in insertion order: keys is that order, rows the
\* value of each key.
NoTeams == [keys |-> <<>>, rows |-> EmptyDict]

\* if team not in teams_data: teams_data[team] = []
\* teams_data[team].append(record)
Appended(td, team, record) ==
    [keys |-> IF team \in DOMAIN td.rows THEN td.keys ELSE Append(td.keys, team),
     rows |-> [t \in DOMAIN td.rows \cup {team} |->
                 IF t = team
                 THEN Append(IF t \in DOMAIN td.rows THEN td.rows[t] ELSE <<>>, record)
                 ELSE td.rows[t]]]

\* The teams_data a parser returns for a file of these blocks: the winner's
\* record, then the loser's; nothing for a tied game.
RECURSIVE ParsedData(_, _)
ParsedData(sport, blocks) ==
    IF blocks = <<>> THEN NoTeams
    ELSE LET b == blocks[Len(blocks)]
             td == ParsedData(sport, SubSeq(blocks, 1, Len(blocks) - 1))
         IN  IF b.away_score > b.home_score
             THEN Appended(Appended(td, b.away_team, GameRecord(sport, b, "away", "W")),
                           b.home_team, GameRecord(sport, b, "home", "L"))
             ELSE IF b.home_score > b.away_score
             THEN Appended(Appended(td, b.home_team, GameRecord(sport, b, "home", "W")),
                           b.away_team, GameRecord(sport, b, "away", "L"))
             ELSE td

\* The parsed data of the file holding the scheduled games.
DataOf(sport, games) == ParsedData(sport, [i \in 1..Len(games) |-> Season[games[i]]])

(***************************************************************************)
(* NFL: calculate_team_averages (src/NFL/predictor.py:494-795)             *)
(***************************************************************************)

\* A call returned None.
None == [returned |-> "None"]

\* The loop "for g in games" of lines 541-619, after its first k rounds.
\* ypa and pts are locals the loop assigns at the END of a round (lines 593
\* and 601-605) and the fallback branch reads at its start (lines 568, 572):
\* bound tells whether a round has assigned them yet, and reading an
\* unassigned local raises UnboundLocalError.
RECURSIVE qb_loop(_, _)
qb_loop(games, k) ==
    IF k = 0
    THEN [raised |-> FALSE, bound |-> FALSE, ypa |-> 0, pts |-> 0,
          qb_rating_vals |-> <<>>, qb_ypa_vals |-> <<>>, qb_td_vals |-> <<>>,
          qb_int_vals |-> <<>>, qb_td_int_ratio_vals |-> <<>>]
    ELSE LET st == qb_loop(games, k - 1)
             g == games[k]
             qb == g.qb_stats
             pass_yds == Get(g.off_stats, "passingYards", 0)
             comp_rate == Get(g.off_stats, "completionRate", 0)
             attempts == Quot(pass_yds, Prod(comp_rate, 7500))
             ypa == IF comp_rate > 0
                    THEN (IF attempts > 0 THEN Quot(pass_yds, attempts) ELSE 0)
                    ELSE 0
             ints == Get(g.off_stats, "interceptions", 0)
             rz_rate == Get(g.off_stats, "redZoneRate", 500)
             est_tds == Prod(Quot(st.pts, 7000), rz_rate)
         IN  IF st.raised THEN st
             ELSE IF DOMAIN qb # {}
             THEN [raised |-> FALSE, bound |-> TRUE, ypa |-> ypa, pts |-> g.score_for * 1000,
                   qb_rating_vals |-> Append(st.qb_rating_vals, Get(qb, "rating", 0)),
                   qb_ypa_vals |-> Append(st.qb_ypa_vals, Get(qb, "ypa", 0)),
                   qb_td_vals |-> Append(st.qb_td_vals, Get(qb, "tds", 0)),
                   qb_int_vals |-> Append(st.qb_int_vals, Get(qb, "ints", 0)),
                   qb_td_int_ratio_vals |->
                       Append(st.qb_td_int_ratio_vals,
                              IF Get(qb, "ints", 0) >= 0
                              THEN Quot(Get(qb, "tds", 0), Get(qb, "ints", 0) + 500)
                              ELSE 2000)]
             ELSE IF ~st.bound THEN [st EXCEPT !.raised = TRUE]
             ELSE [raised |-> FALSE, bound |-> TRUE, ypa |-> ypa, pts |-> g.score_for * 1000,
                   qb_rating_vals |-> Append(st.qb_rating_vals, 85000),
                   qb_ypa_vals |-> Append(st.qb_ypa_vals, st.ypa),
                   qb_td_vals |-> st.qb_td_vals,
                   qb_int_vals |-> st.qb_int_vals,
                   qb_td_int_ratio_vals |->
                       Append(st.qb_td_int_ratio_vals,
                              IF ints >= 0 THEN Quot(est_tds, ints + 500) ELSE 2000)]

\* recent_form, close_games and splits (lines 698-718): the same code in the
\* NFL and the CFB predictor
recent_form(games) ==
    LET recent_games == LastGames(games, 3)
        recent_wins == Count(recent_games, LAMBDA g : g.result = "W")
    IN  [wins |-> recent_wins, games |-> Len(recent_games),
         win_rate |-> Quot(recent_wins, Len(recent_games)),
         points_scored |-> Quot(Sum(Each(recent_games, LAMBDA g : g.score_for)), Len(recent_games)),
         points_allowed |-> Quot(Sum(Each(recent_games, LAMBDA g : g.score_against)), Len(recent_games))]

close_games(games) ==
    LET close == SelectSeq(games, LAMBDA g : Abs(g.score_for - g.score_against) <= 7)
        close_game_wins == Count(close, LAMBDA g : g.result = "W")
    IN  [total |-> Len(close), wins |-> close_game_wins,
         win_rate |-> IF close # <<>> THEN Quot(close_game_wins, Len(close)) ELSE 500]

splits(games) ==
    LET home_games == SelectSeq(games, LAMBDA g : g.location = "home")
        away_games == SelectSeq(games, LAMBDA g : g.location = "away")
        home_wins == Count(home_games, LAMBDA g : g.result = "W")
        away_wins == Count(away_games, LAMBDA g : g.result = "W")
        home_win_rate == IF home_games # <<>> THEN Quot(home_wins, Len(home_games)) ELSE 500
        away_win_rate == IF away_games # <<>> THEN Quot(away_wins, Len(away_games)) ELSE 500
    IN  [home_win_rate |-> home_win_rate, away_win_rate |-> away_win_rate,
         home_advantage |-> home_win_rate - away_win_rate]

\* Lines 509-795 of calculate_team_averages, for the games it counts and the
\* state its QB loop ends in.
team_averages(games, loop) ==
        LET  off(key) == calculate_weighted_average(Each(games, LAMBDA g : Get(g.off_stats, key, 0)))
             def(key) == calculate_weighted_average(Each(games, LAMBDA g : Get(g.def_stats, key, 0)))
             avg_qb_ypa == calculate_weighted_average(loop.qb_ypa_vals)
             avg_qb_td_int_ratio == calculate_weighted_average(loop.qb_td_int_ratio_vals)
             points_scored_vals == Each(games, LAMBDA g : g.score_for)
             points_allowed_vals == Each(games, LAMBDA g : g.score_against)
             wins == Count(games, LAMBDA g : g.result = "W")
             pythagorean == pythagorean_exp(Pow237, Sum(points_scored_vals), Sum(points_allowed_vals))
         IN  IF games = <<>> THEN None
             ELSE IF loop.raised THEN Raised("UnboundLocalError")
             ELSE IF pythagorean.returned # "float" THEN pythagorean
             ELSE [returned |-> "dict",
                   games_played |-> Len(games),
                   wins |-> wins,
                   win_rate |-> <<wins, Len(games)>>,
                   pythagorean_win_rate |-> pythagorean.value,
                   offense |->
                     [yards_per_play |-> off("yardsPerPlay"),
                      total_yards |-> off("totalYards"),
                      points_scored |-> calculate_weighted_average(Each(games, LAMBDA g : g.score_for * 1000)),
                      third_down_rate |-> off("thirdDownRate"),
                      red_zone_rate |-> off("redZoneRate"),
                      turnovers |-> off("turnovers"),
                      interceptions_thrown |-> off("interceptions"),
                      rushing_yards |-> off("rushingYards"),
                      rushing_avg |-> off("rushingAvg"),
                      passing_yards |-> off("passingYards"),
                      completion_rate |-> off("completionRate"),
                      yards_per_attempt |-> avg_qb_ypa,
                      td_int_ratio |-> avg_qb_td_int_ratio,
                      sacks_made |-> off("sacks"),
                      penalties |-> off("penalties"),
                      qb_rating |-> calculate_weighted_average(loop.qb_rating_vals),
                      qb_tds_per_game |-> calculate_weighted_average(loop.qb_td_vals),
                      qb_ints_per_game |-> calculate_weighted_average(loop.qb_int_vals)],
                   defense |->
                     [yards_allowed |-> def("totalYards"),
                      yards_per_play_allowed |-> def("yardsPerPlay"),
                      points_allowed |-> calculate_weighted_average(Each(games, LAMBDA g : g.score_against * 1000)),
                      sacks_allowed |-> def("sacks"),
                      rushing_yards_allowed |-> def("rushingYards"),
                      rushing_avg_allowed |-> def("rushingAvg"),
                      passing_yards_allowed |-> def("passingYards"),
                      completion_allowed |-> def("completionRate"),
                      red_zone_allowed |-> def("redZoneRate"),
                      third_down_allowed |-> def("thirdDownRate"),
                      interceptions_forced |-> def("interceptions")],
                   recent_form |-> recent_form(games),
                   close_games |-> close_games(games),
                   splits |-> splits(games),
                   turnover_margin |-> def("interceptions") - off("turnovers")]

\* The games calculate_team_averages counts (lines 502-504)
counted_games(team, data, regular_only) ==
    IF regular_only
    THEN SelectSeq(data.rows[team], LAMBDA g : ~g.preseason)
    ELSE data.rows[team]

\* calculate_team_averages(team, data, regular_only).  Of the returned
\* dict the entries advanced_prediction reads are kept, and the quarterback
\* entries; fourth_down_rate, fumbles_lost, sack_rate, epa_proxy and the
\* explosive-play rates are printed only and left out.
calculate_team_averages(team, data, regular_only) ==
    IF team \notin DOMAIN data.rows THEN None
    ELSE team_averages(counted_games(team, data, regular_only),
                       qb_loop(counted_games(team, data, regular_only),
                               Len(counted_games(team, data, regular_only))))

(***************************************************************************)
(* NFL: the helpers of advanced_prediction (src/NFL/predictor.py:798-1050) *)
(* They are evaluated on data for which calculate_team_averages raises for *)
(* no team: advanced_prediction below raises before it gets to them        *)
(* otherwise.                                                              *)
(***************************************************************************)

\* The first game of the list that passes the test (the loop's break), or 0.
FirstOf(games, test(_)) ==
    LET hits == {i \in 1..Len(games) : test(games[i])}
    IN  IF hits = {} THEN 0 ELSE CHOOSE i \in hits : \A j \in hits : i <= j

NoBounceBack == [bounce_back_score |-> 0, has_bounce_back_potential |-> FALSE]

\* calculate_bounce_back_probability(team, teams_data); the list of factors
\* is printed only
calculate_bounce_back_probability(team, data) ==
    IF team \notin DOMAIN data.rows THEN NoBounceBack
    ELSE LET games == SelectSeq(data.rows[team], LAMBDA g : ~g.preseason)
             recent_games == LastGames(games, 3)
             recent_losses == SelectSeq(recent_games, LAMBDA g : g.result = "L")
             to_margin(g) == Get(g.off_stats, "sacks", 0) - Get(g.off_stats, "turnovers", 0)
             last_game == games[Len(games)]
             turnover_luck ==
                 IF last_game.result = "L" /\ to_margin(last_game) <= -2000 THEN 1500 ELSE 0
             last_two ==
                 IF Sum(Each(LastGames(games, 2), to_margin)) <= -3000 THEN 1000 ELSE 0
             recent_3rd_down ==
                 Sum(Each(recent_games, LAMBDA g : Get(g.off_stats, "thirdDownRate", 0)))
                     \div Len(recent_games)
             third_down == IF recent_3rd_down <= 250 /\ recent_3rd_down > 0 THEN 1000 ELSE 0
             outgained(g) ==
                 Get(g.off_stats, "totalYards", 0) > Get(g.def_stats, "totalYards", 0) + 50000
             efficient(g) ==
                 Get(g.off_stats, "yardsPerPlay", 0) > Get(g.def_stats, "yardsPerPlay", 0) + 500
             played_well == FirstOf(recent_losses, LAMBDA g : outgained(g) \/ efficient(g))
             underlying ==
                 IF played_well = 0 THEN 0
                 ELSE IF outgained(recent_losses[played_well]) THEN 1500 ELSE 1000
             blowout ==
                 IF FirstOf(recent_losses, LAMBDA g : g.score_against - g.score_for >= 20) # 0
                 THEN 500 ELSE 0
             bounce_back_score == turnover_luck + last_two + third_down + underlying + blowout
         IN  IF Len(games) < 2 THEN NoBounceBack
             ELSE IF Len(recent_losses) < 2 THEN NoBounceBack
             ELSE [bounce_back_score |-> bounce_back_score,
                   has_bounce_back_potential |-> bounce_back_score >= 2000]

\* calculate_opponent_quality(team, teams_data)
\* Lines 898-901: the mean of the opponents' win rates, 0.5 without any
opponent_quality(opponent_win_rates) ==
    IF opponent_win_rates = <<>> THEN 500
    ELSE Sum(opponent_win_rates) \div Len(opponent_win_rates)

calculate_opponent_quality(team, data) ==
    IF team \notin DOMAIN data.rows THEN 500
    ELSE opponent_quality(
             Each(SelectSeq(Each(SelectSeq(data.rows[team], LAMBDA g : ~g.preseason),
                                 LAMBDA g : calculate_team_averages(g.opponent, data, TRUE)),
                            LAMBDA opp_avg : opp_avg.returned = "dict"),
                  LAMBDA opp_avg : Milli(opp_avg.win_rate)))

\* classify_offensive_style(team_avg)
classify_offensive_style(team_avg) ==
    IF team_avg.returned # "dict" THEN "balanced"
    ELSE LET rush_yards == team_avg.offense.rushing_yards
             pass_yards == team_avg.offense.passing_yards
             total_yards == rush_yards + pass_yards
             rush_pct == Quot(rush_yards, total_yards)
         IN  IF total_yards = 0 THEN "balanced"
             ELSE IF rush_pct > 550 THEN "run_heavy"
             ELSE IF rush_pct < 450 THEN "pass_heavy"
             ELSE "balanced"

\* find_similar_matchup_performance(team, opponent_style, teams_data,
\* matchup_type), lines 972-991: what the games against opponents of that
\* style average to
similar_matchup_performance(similar_games, matchup_type) ==
        LET  mean(f(_)) == Quot(Sum(Each(similar_games, f)), Len(similar_games))
             win_rate == Quot(Count(similar_games, LAMBDA g : g.result = "W"), Len(similar_games))
         IN  IF similar_games = <<>> THEN None
             ELSE IF matchup_type = "offense"
             THEN [returned |-> "dict", games |-> Len(similar_games),
                   avg_points |-> mean(LAMBDA g : g.score_for),
                   win_rate |-> win_rate]
             ELSE [returned |-> "dict", games |-> Len(similar_games),
                   avg_points_allowed |-> mean(LAMBDA g : g.score_against),
                   win_rate |-> win_rate]

\* The loop of lines 941-970: the games against opponents that have averages
\* and play the style asked for
find_similar_matchup_performance(team, opponent_style, data, matchup_type) ==
    IF team \notin DOMAIN data.rows THEN None
    ELSE similar_matchup_performance(
             Each(SelectSeq(Each(SelectSeq(data.rows[team], LAMBDA g : ~g.preseason),
                                 LAMBDA g : [game |-> g, avg |->
                                               calculate_team_averages(g.opponent, data, TRUE)]),
                            LAMBDA opp : /\ opp.avg.returned = "dict"
                                         /\ classify_offensive_style(opp.avg) = opponent_style),
                  LAMBDA opp : opp.game),
             matchup_type)

\* The dict calculate_strength_adjusted_stats returns when it has nothing to
\* rank: it has no faced_tough_defenses and no faced_weak_defenses entry.
NoAdjustment == [adjustment_factor |-> 1000, avg_opp_def_rank |-> 500]

\* calculate_strength_adjusted_stats(team, teams_data).  sorted() is stable:
\* teams allowing the same yards per play keep the dict's order.
\* Lines 1012-1021: each ranked team's place among the defenses, best
\* first, over the number of teams
defense_ranks(ranked, allowed) ==
    [tm \in {ranked[k] : k \in 1..Len(ranked)} |->
        Quot(Cardinality({j \in 1..Len(ranked) :
                 \/ allowed[j] < allowed[CHOOSE k \in 1..Len(ranked) : ranked[k] = tm]
                 \/ /\ allowed[j] = allowed[CHOOSE k \in 1..Len(ranked) : ranked[k] = tm]
                    /\ j <= CHOOSE k \in 1..Len(ranked) : ranked[k] = tm}),
             Len(ranked))]

\* Lines 1039-1050: the adjustment for the mean rank of the defenses faced
strength_adjustment(avg_opp_def_rank) ==
    [adjustment_factor |-> 1000 + Prod(500 - avg_opp_def_rank, 300),
     avg_opp_def_rank |-> avg_opp_def_rank,
     faced_tough_defenses |-> avg_opp_def_rank < 400,
     faced_weak_defenses |-> avg_opp_def_rank > 600]

\* Lines 1023-1037: the ranks of the defenses the team faced
faced_defenses(opp_def_qualities) ==
    IF opp_def_qualities = <<>> THEN NoAdjustment
    ELSE strength_adjustment(Sum(opp_def_qualities) \div Len(opp_def_qualities))

ranked_defenses(games, all_teams_def_stats, ranks) ==
    IF all_teams_def_stats = <<>> THEN NoAdjustment
    ELSE faced_defenses(Each(SelectSeq(games, LAMBDA g : g.opponent \in DOMAIN ranks),
                             LAMBDA g : ranks[g.opponent]))

all_defenses(games, all_teams_def_stats) ==
    ranked_defenses(games, all_teams_def_stats,
                    defense_ranks(Each(all_teams_def_stats, LAMBDA stats : stats.team),
                                  Each(all_teams_def_stats,
                                       LAMBDA stats : stats.avg.defense.yards_per_play_allowed)))

calculate_strength_adjusted_stats(team, data) ==
    IF team \notin DOMAIN data.rows THEN NoAdjustment
    ELSE all_defenses(SelectSeq(data.rows[team], LAMBDA g : ~g.preseason),
                      SelectSeq(Each(data.keys, LAMBDA tm : [team |-> tm, avg |->
                                        calculate_team_averages(tm, data, TRUE)]),
                                LAMBDA stats : stats.avg.returned = "dict"))

(***************************************************************************)
(* NFL: calculate_injury_impact (src/NFL/injuryextract.py:53-181)          *)
(* injury_data is a dict from team names to lists of injuries; the empty   *)
(* dict stands for None as well, the code testing "not injury_data" only.  *)
(***************************************************************************)

UpperCase == <<"A", "B", "C", "D", "E", "F", "G", "H", "I", "J", "K", "L", "M", "N", "O", "P", "Q", "R", "S", "T", "U", "V", "W", "X", "Y", "Z">>

LowerCase == <<"a", "b", "c", "d", "e", "f", "g", "h", "i", "j", "k", "l", "m", "n", "o", "p", "q", "r", "s", "t", "u", "v", "w", "x", "y", "z">>

\* s.lower() and s.upper()
Recased(s, from, to) ==
    [i \in 1..Len(s) |->
        IF \E k \in 1..Len(from) : from[k] = s[i]
        THEN to[CHOOSE k \in 1..Len(from) : from[k] = s[i]]
        ELSE s[i]]

Lower(s) == Recased(s, UpperCase, LowerCase)

Upper(s) == Recased(s, LowerCase, UpperCase)

\* The words detect_position_from_name_and_comment looks for, in its order.
PositionWords ==
    << <<"QB", {<<"q", "u", "a", "r", "t", "e", "r", "b", "a", "c", "k">>, <<"q", "b", " ">>, <<" ", "q", "b", ",">>, <<"p", "a", "s", "s", "i", "n", "g">>, <<"t", "h", "r", "e", "w", " ", "f", "o", "r">>, <<"c", "o", "m", "p", "l", "e", "t", "e", "d">>}>>,
       <<"RB", {<<"r", "u", "n", "n", "i", "n", "g", " ", "b", "a", "c", "k">>, <<"r", "b", " ">>, <<"c", "a", "r", "r", "i", "e", "d">>, <<"r", "u", "s", "h", "i", "n", "g">>, <<"c", "a", "r", "r", "i", "e", "s", " ", "f", "o", "r">>}>>,
       <<"WR", {<<"r", "e", "c", "e", "i", "v", "e", "r">>, <<"w", "r", " ">>, <<"c", "a", "u", "g", "h", "t">>, <<"r", "e", "c", "e", "p", "t", "i", "o", "n", "s">>, <<"t", "a", "r", "g", "e", "t", "s">>, <<"r", "e", "c", "e", "i", "v", "i", "n", "g">>}>>,
       <<"TE", {<<"t", "i", "g", "h", "t", " ", "e", "n", "d">>, <<"t", "e", " ">>}>>,
       <<"LB", {<<"l", "i", "n", "e", "b", "a", "c", "k", "e", "r">>, <<"l", "b", " ">>, <<"t", "a", "c", "k", "l", "e", "s">>}>>,
       <<"CB", {<<"c", "o", "r", "n", "e", "r", "b", "a", "c", "k">>, <<"c", "b", " ">>, <<"c", "o", "v", "e", "r", "a", "g", "e">>, <<"p", "a", "s", "s", " ", "d", "e", "f", "e", "n", "s", "e">>}>>,
       <<"S", {<<"s", "a", "f", "e", "t", "y">>, <<"s", "s", " ">>, <<"f", "s", " ">>}>>,
       <<"DE", {<<"d", "e", "f", "e", "n", "s", "i", "v", "e", " ", "e", "n", "d">>, <<"d", "e", " ">>, <<"e", "d", "g", "e">>, <<"s", "a", "c", "k", "s">>}>>,
       <<"DT", {<<"d", "e", "f", "e", "n", "s", "i", "v", "e", " ", "t", "a", "c", "k", "l", "e">>, <<"d", "t", " ">>}>>,
       <<"OL", {<<"o", "f", "f", "e", "n", "s", "i", "v", "e", " ", "l", "i", "n", "e">>, <<"o", "l", " ">>, <<"g", "u", "a", "r", "d">>, <<"t", "a", "c", "k", "l", "e">>, <<"c", "e", "n", "t", "e", "r">>}>> >>

\* detect_position_from_name_and_comment(player_name, comment)
detect_position_from_name_and_comment(player_name, comment) ==
    LET comment_lower == Lower(comment)
        hits == {k \in 1..Len(PositionWords) :
                    \E word \in PositionWords[k][2] : Contains(comment_lower, word)}
    IN  IF hits = {} THEN "UNKNOWN"
        ELSE PositionWords[CHOOSE k \in hits : \A j \in hits : k <= j][1]

\* position_weights.get(position, 1.0)
position_weights(position) ==
    CASE position = "QB" -> 10000
      [] position \in {"WR", "OL"} -> 2500
      [] position \in {"RB", "TE", "DE", "CB"} -> 2000
      [] position \in {"LB", "S", "DT"} -> 1500
      [] OTHER -> 1000

\* status_multipliers, in the dict's order
status_multipliers ==
    << <<<<"o", "u", "t">>, 1000>>, <<<<"i", "r">>, 1000>>, <<<<"i", "n", "j", "u", "r", "e", "d", " ", "r", "e", "s", "e", "r", "v", "e">>, 1000>>,
       <<<<"d", "o", "u", "b", "t", "f", "u", "l">>, 600>>, <<<<"q", "u", "e", "s", "t", "i", "o", "n", "a", "b", "l", "e">>, 200>>, <<<<"a", "c", "t", "i", "v", "e">>, 0>> >>

\* calculate_injury_impact(team_name, injury_data)
calculate_injury_impact(team_name, injury_data) ==
    IF team_name \notin DOMAIN injury_data
    THEN [total_injuries |-> 0, key_injuries |-> 0, impact_score |-> 0,
          injury_list |-> <<>>, qb_injured |-> FALSE]
    ELSE LET team_injuries == injury_data[team_name]
             actual_injuries == SelectSeq(team_injuries, LAMBDA i : Lower(i.status) # <<"a", "c", "t", "i", "v", "e">>)
             position(i) == detect_position_from_name_and_comment(i.player_name, i.detail)
             keyed(i) == {k \in 1..Len(status_multipliers) :
                             Contains(Lower(i.status), status_multipliers[k][1])}
             status_mult(i) ==
                 IF keyed(i) = {} THEN 0
                 ELSE status_multipliers[CHOOSE k \in keyed(i) : \A j \in keyed(i) : k <= j][2]
             player_impact(i) == Prod(position_weights(position(i)), status_mult(i))
             key_injuries == SelectSeq(actual_injuries, LAMBDA i : player_impact(i) >= 2000)
         IN  [total_injuries |-> Len(actual_injuries),
              out |-> Count(actual_injuries,
                            LAMBDA i : Lower(i.status) \in {<<"o", "u", "t">>, <<"i", "r">>, <<"i", "n", "j", "u", "r", "e", "d", " ", "r", "e", "s", "e", "r", "v", "e">>}),
              doubtful |-> Count(actual_injuries, LAMBDA i : Contains(Lower(i.status), <<"d", "o", "u", "b", "t", "f", "u", "l">>)),
              questionable |-> Count(actual_injuries, LAMBDA i : Contains(Lower(i.status), <<"q", "u", "e", "s", "t", "i", "o", "n", "a", "b", "l", "e">>)),
              key_injuries |-> Len(key_injuries),
              impact_score |-> Sum(Each(actual_injuries, player_impact)),
              injury_list |-> Each(key_injuries, LAMBDA i : i.player_name),
              qb_injured |-> \E k \in 1..Len(actual_injuries) :
                                 /\ position(actual_injuries[k]) = "QB"
                                 /\ status_mult(actual_injuries[k]) > 500]

(***************************************************************************)
(* NFL: advanced_prediction (src/NFL/predictor.py:1053-1810)               *)
(***************************************************************************)

\* d[k] for some k of keys raises KeyError
ReadsMissing(d, keys) == \E k \in keys : k \notin DOMAIN d

\* The exception of the first call, in the order given, that raises.
FirstRaised(outcomes) ==
    LET raising == {k \in 1..Len(outcomes) : outcomes[k].returned \notin {"dict", "None"}}
    IN  IF raising = {} THEN None
        ELSE outcomes[CHOOSE k \in raising : \A j \in raising : k <= j]

\* The keys the injury report of lines 1125-1137 and 1174-1186 prints, and
\* the ones the injury rule of lines 1755-1803 reads.
InjuryReportKeys ==
    {"total_injuries", "out", "doubtful", "questionable", "impact_score", "qb_injured", "injury_list"}

InjuryRuleKeys == {"impact_score", "out", "doubtful", "key_injuries", "qb_injured"}

\* Points to the home team, to the away team, to nobody: <<home, away>>
ToHome(points) == <<points, 0>>

ToAway(points) == <<0, points>>

Nobody == <<0, 0>>

\* The home field rules applied whatever is_neutral says: the hidden home
\* bias a neutral-site prediction must not have.
home_field_always(is_neutral, rules) == rules

\* "if is_neutral: ... else:" of src/NFL/predictor.py:1494-1544 and
\* src/CFB/predictor.py:978-1023: no home field rule at a neutral site
home_field(is_neutral, rules) == IF is_neutral THEN <<>> ELSE rules

\* The rules of lines 1197-1491, each as the points it adds to
\* <<home_points, away_points>>, in the code's order.
nfl_matchup_points(home_avg, away_avg, home_vs_similar_off, away_vs_similar_off, home_opp_quality, away_opp_quality, home_strength_adj, away_strength_adj) ==
    LET home_off_vs_away_def ==
            <<home_avg.offense.yards_per_play, away_avg.defense.yards_per_play_allowed + 100>>
        away_off_vs_home_def ==
            <<away_avg.offense.yards_per_play, home_avg.defense.yards_per_play_allowed + 100>>
        home_rush_vs_away_rush_d ==
            <<home_avg.offense.rushing_yards, away_avg.defense.rushing_yards_allowed + 100>>
        away_rush_vs_home_rush_d ==
            <<away_avg.offense.rushing_yards, home_avg.defense.rushing_yards_allowed + 100>>
        home_pass_vs_away_pass_d ==
            <<home_avg.offense.passing_yards, away_avg.defense.passing_yards_allowed + 100>>
        away_pass_vs_home_pass_d ==
            <<away_avg.offense.passing_yards, home_avg.defense.passing_yards_allowed + 100>>
        points_ratio_home ==
            <<home_avg.offense.points_scored, away_avg.defense.points_allowed + 100>>
        points_ratio_away ==
            <<away_avg.offense.points_scored, home_avg.defense.points_allowed + 100>>
        third_down_diff == home_avg.offense.third_down_rate - away_avg.offense.third_down_rate
        home_sack_diff == home_avg.offense.sacks_made - home_avg.defense.sacks_allowed
        away_sack_diff == away_avg.offense.sacks_made - away_avg.defense.sacks_allowed
        sack_matchup_diff == home_sack_diff - away_sack_diff
        home_momentum == home_avg.recent_form.win_rate
        away_momentum == away_avg.recent_form.win_rate
    IN  << \* similar matchup history, lines 1208-1239
           IF home_vs_similar_off.returned = "dict" /\ home_vs_similar_off.games >= 2
           THEN (IF home_vs_similar_off.avg_points_allowed < home_avg.defense.points_allowed - 3000
                 THEN ToHome(1500)
                 ELSE IF home_vs_similar_off.avg_points_allowed > home_avg.defense.points_allowed + 3000
                 THEN ToAway(1500) ELSE Nobody)
           ELSE Nobody,
           IF away_vs_similar_off.returned = "dict" /\ away_vs_similar_off.games >= 2
           THEN (IF away_vs_similar_off.avg_points_allowed < away_avg.defense.points_allowed - 3000
                 THEN ToAway(1500)
                 ELSE IF away_vs_similar_off.avg_points_allowed > away_avg.defense.points_allowed + 3000
                 THEN ToHome(1500) ELSE Nobody)
           ELSE Nobody,
           \* 1. offensive vs defensive matchup, lines 1241-1279
           IF Above(home_off_vs_away_def, 1200) THEN ToHome(3500)
           ELSE IF Above(home_off_vs_away_def, 1100) THEN ToHome(2500)
           ELSE IF Above(home_off_vs_away_def, 1000) THEN ToHome(1500)
           ELSE IF Below(home_off_vs_away_def, 850) THEN ToAway(2000)
           ELSE IF Below(home_off_vs_away_def, 950) THEN ToAway(1000) ELSE Nobody,
           IF Above(away_off_vs_home_def, 1200) THEN ToAway(3500)
           ELSE IF Above(away_off_vs_home_def, 1100) THEN ToAway(2500)
           ELSE IF Above(away_off_vs_home_def, 1000) THEN ToAway(1500)
           ELSE IF Below(away_off_vs_home_def, 850) THEN ToHome(2000)
           ELSE IF Below(away_off_vs_home_def, 950) THEN ToHome(1000) ELSE Nobody,
           \* 2. run game vs run defense, lines 1281-1308
           IF Above(home_rush_vs_away_rush_d, 1300) THEN ToHome(2500)
           ELSE IF Above(home_rush_vs_away_rush_d, 1100) THEN ToHome(1500)
           ELSE IF Above(home_rush_vs_away_rush_d, 1000) THEN ToHome(750) ELSE Nobody,
           IF Above(away_rush_vs_home_rush_d, 1300) THEN ToAway(2500)
           ELSE IF Above(away_rush_vs_home_rush_d, 1100) THEN ToAway(1500)
           ELSE IF Above(away_rush_vs_home_rush_d, 1000) THEN ToAway(750) ELSE Nobody,
           \* 3. pass game vs pass defense, lines 1310-1337
           IF Above(home_pass_vs_away_pass_d, 1300) THEN ToHome(2500)
           ELSE IF Above(home_pass_vs_away_pass_d, 1100) THEN ToHome(1500)
           ELSE IF Above(home_pass_vs_away_pass_d, 1000) THEN ToHome(750) ELSE Nobody,
           IF Above(away_pass_vs_home_pass_d, 1300) THEN ToAway(2500)
           ELSE IF Above(away_pass_vs_home_pass_d, 1100) THEN ToAway(1500)
           ELSE IF Above(away_pass_vs_home_pass_d, 1000) THEN ToAway(750) ELSE Nobody,
           \* 4. scoring efficiency, lines 1339-1360
           IF Above(points_ratio_home, 1250) THEN ToHome(2500)
           ELSE IF Above(points_ratio_home, 1150) THEN ToHome(1500) ELSE Nobody,
           IF Above(points_ratio_away, 1250) THEN ToAway(2500)
           ELSE IF Above(points_ratio_away, 1150) THEN ToAway(1500) ELSE Nobody,
           \* third down efficiency, lines 1362-1382
           IF third_down_diff > 80 THEN ToHome(1500)
           ELSE IF third_down_diff > 40 THEN ToHome(750)
           ELSE IF third_down_diff < -80 THEN ToAway(1500)
           ELSE IF third_down_diff < -40 THEN ToAway(750) ELSE Nobody,
           \* pass rush pressure, lines 1384-1404
           IF sack_matchup_diff > 1000 THEN ToHome(1500)
           ELSE IF sack_matchup_diff > 500 THEN ToHome(750)
           ELSE IF sack_matchup_diff < -1000 THEN ToAway(1500)
           ELSE IF sack_matchup_diff < -500 THEN ToAway(750) ELSE Nobody,
           \* 5. momentum, lines 1406-1435
           IF home_momentum = 1000 /\ home_avg.recent_form.games >= 3 THEN ToHome(2000)
           ELSE IF home_momentum >= 670 THEN ToHome(1000)
           ELSE IF home_momentum = 0 /\ home_avg.recent_form.games >= 3 THEN ToAway(1500)
           ELSE Nobody,
           IF away_momentum = 1000 /\ away_avg.recent_form.games >= 3 THEN ToAway(2000)
           ELSE IF away_momentum >= 670 THEN ToAway(1000)
           ELSE IF away_momentum = 0 /\ away_avg.recent_form.games >= 3 THEN ToHome(1500)
           ELSE Nobody,
           \* 6. opponent quality adjustment, lines 1437-1453
           IF Milli(home_avg.win_rate) >= 500 /\ home_opp_quality > away_opp_quality + 150
           THEN ToHome(1500)
           ELSE IF Milli(home_avg.win_rate) >= 500 /\ home_opp_quality > away_opp_quality + 50
           THEN ToHome(750)
           ELSE IF Milli(away_avg.win_rate) >= 500 /\ away_opp_quality > home_opp_quality + 150
           THEN ToAway(1500)
           ELSE IF Milli(away_avg.win_rate) >= 500 /\ away_opp_quality > home_opp_quality + 50
           THEN ToAway(750) ELSE Nobody,
           \* strength of schedule, lines 1455-1477
           IF home_strength_adj.faced_tough_defenses /\ home_avg.offense.points_scored > 22000
           THEN ToHome(1500)
           ELSE IF home_strength_adj.faced_weak_defenses THEN ToHome(-2000) ELSE Nobody,
           IF away_strength_adj.faced_tough_defenses /\ away_avg.offense.points_scored > 22000
           THEN ToAway(1500)
           ELSE IF away_strength_adj.faced_weak_defenses THEN ToAway(-2000) ELSE Nobody,
           \* close game performance, lines 1479-1491
           IF home_avg.close_games.total >= 3 /\ home_avg.close_games.win_rate > 600
           THEN ToHome(1000) ELSE Nobody,
           IF away_avg.close_games.total >= 3 /\ away_avg.close_games.win_rate > 600
           THEN ToAway(1000) ELSE Nobody >>

\* The calls the matchup rules make, in the code's order (lines 1115-1116,
\* 1164-1165, 1198-1199 and 1209-1210)
nfl_matchup_rules(home_team, away_team, data, home_avg, away_avg) ==
    nfl_matchup_points(
        home_avg, away_avg,
        find_similar_matchup_performance(home_team, classify_offensive_style(away_avg), data, "defense"),
        find_similar_matchup_performance(away_team, classify_offensive_style(home_avg), data, "defense"),
        calculate_opponent_quality(home_team, data),
        calculate_opponent_quality(away_team, data),
        calculate_strength_adjusted_stats(home_team, data),
        calculate_strength_adjusted_stats(away_team, data))

\* 7. the home field advantage of lines 1493-1544, the else branch of
\* "if is_neutral"
nfl_home_field(home_avg, away_avg) ==
    LET home_advantage_strength == home_avg.splits.home_advantage
        hfa_points ==
            IF home_avg.splits.home_win_rate = 0 THEN 0
            ELSE IF home_advantage_strength > 250 THEN 3000
            ELSE IF home_advantage_strength > 150 THEN 2500
            ELSE IF home_advantage_strength > 50 THEN 2000
            ELSE IF home_advantage_strength < -100 THEN 500
            ELSE 1500
    IN  << ToHome(hfa_points),
           IF away_avg.splits.away_win_rate >= 700
           THEN (IF away_avg.splits.away_win_rate > home_avg.splits.home_win_rate
                 THEN ToAway(1500) ELSE ToAway(1000))
           ELSE IF away_avg.splits.away_win_rate < 300 THEN ToHome(500) ELSE Nobody >>

\* The rules of lines 1546-1803
nfl_form_rules(home_team, away_team, data, home_avg, away_avg, home_injury_impact, away_injury_impact) ==
    LET home_comp_vs_away_def ==
            home_avg.offense.completion_rate - away_avg.defense.completion_allowed
        away_comp_vs_home_def ==
            away_avg.offense.completion_rate - home_avg.defense.completion_allowed
        home_rz_advantage == home_avg.offense.red_zone_rate - away_avg.defense.red_zone_allowed
        away_rz_advantage == away_avg.offense.red_zone_rate - home_avg.defense.red_zone_allowed
        home_rush_eff_adv == home_avg.offense.rushing_avg - away_avg.defense.rushing_avg_allowed
        away_rush_eff_adv == away_avg.offense.rushing_avg - home_avg.defense.rushing_avg_allowed
        home_int_risk ==
            home_avg.offense.interceptions_thrown - away_avg.defense.interceptions_forced
        away_int_risk ==
            away_avg.offense.interceptions_thrown - home_avg.defense.interceptions_forced
        penalty_diff == away_avg.offense.penalties - home_avg.offense.penalties
        home_win_pts == Quot(home_avg.win_rate[1] * 3, home_avg.win_rate[2])
        away_win_pts == Quot(away_avg.win_rate[1] * 3, away_avg.win_rate[2])
        home_bounce_back == calculate_bounce_back_probability(home_team, data)
        away_bounce_back == calculate_bounce_back_probability(away_team, data)
        home_pyth_diff == Milli(home_avg.win_rate) - Milli(home_avg.pythagorean_win_rate)
        away_pyth_diff == Milli(away_avg.win_rate) - Milli(away_avg.pythagorean_win_rate)
        margin_diff == home_avg.turnover_margin - away_avg.turnover_margin
        both_reports == DOMAIN home_injury_impact # {} /\ DOMAIN away_injury_impact # {}
        impact_diff == away_injury_impact.impact_score - home_injury_impact.impact_score
    IN  << \* passing accuracy, lines 1546-1571
           IF home_comp_vs_away_def > 100 THEN ToHome(2000)
           ELSE IF home_comp_vs_away_def > 50 THEN ToHome(1000)
           ELSE IF home_comp_vs_away_def < -100 THEN ToAway(1500) ELSE Nobody,
           IF away_comp_vs_home_def > 100 THEN ToAway(2000)
           ELSE IF away_comp_vs_home_def > 50 THEN ToAway(1000)
           ELSE IF away_comp_vs_home_def < -100 THEN ToHome(1500) ELSE Nobody,
           \* red zone, lines 1573-1593
           IF home_rz_advantage > 150 THEN ToHome(2500)
           ELSE IF home_rz_advantage > 80 THEN ToHome(1500) ELSE Nobody,
           IF away_rz_advantage > 150 THEN ToAway(2500)
           ELSE IF away_rz_advantage > 80 THEN ToAway(1500) ELSE Nobody,
           \* rushing efficiency, lines 1595-1615
           IF home_rush_eff_adv > 1500 THEN ToHome(2000)
           ELSE IF home_rush_eff_adv > 800 THEN ToHome(1000) ELSE Nobody,
           IF away_rush_eff_adv > 1500 THEN ToAway(2000)
           ELSE IF away_rush_eff_adv > 800 THEN ToAway(1000) ELSE Nobody,
           \* takeaway battle, lines 1617-1644
           IF home_int_risk < -500 THEN ToHome(1000)
           ELSE IF home_int_risk > 1000 THEN ToAway(2500)
           ELSE IF home_int_risk > 500 THEN ToAway(1000) ELSE Nobody,
           IF away_int_risk < -500 THEN ToAway(1000)
           ELSE IF away_int_risk > 1000 THEN ToHome(2500)
           ELSE IF away_int_risk > 500 THEN ToHome(1000) ELSE Nobody,
           \* penalty discipline, lines 1646-1663
           IF penalty_diff > 2000 THEN ToHome(1500)
           ELSE IF penalty_diff > 1000 THEN ToHome(750)
           ELSE IF penalty_diff < -2000 THEN ToAway(1500)
           ELSE IF penalty_diff < -1000 THEN ToAway(750) ELSE Nobody,
           \* 8. win rate, lines 1665-1675
           <<home_win_pts, away_win_pts>>,
           \* bounce-back analysis, lines 1677-1697
           IF home_bounce_back.has_bounce_back_potential
           THEN ToHome(home_bounce_back.bounce_back_score) ELSE Nobody,
           IF away_bounce_back.has_bounce_back_potential
           THEN ToAway(away_bounce_back.bounce_back_score) ELSE Nobody,
           \* Pythagorean expectation, lines 1699-1712
           IF home_pyth_diff > 150 THEN ToHome(-1000) ELSE Nobody,
           IF away_pyth_diff > 150 THEN ToAway(-1000) ELSE Nobody,
           \* record quality, lines 1714-1734
           IF home_avg.win_rate[1] = 0 THEN ToHome(-3000)
           ELSE IF Milli(home_avg.win_rate) < 200 THEN ToHome(-2500)
           ELSE IF Milli(home_avg.win_rate) < 400 THEN ToHome(-1500) ELSE Nobody,
           IF away_avg.win_rate[1] = 0 THEN ToAway(-3000)
           ELSE IF Milli(away_avg.win_rate) < 200 THEN ToAway(-2500)
           ELSE IF Milli(away_avg.win_rate) < 400 THEN ToAway(-1500) ELSE Nobody,
           \* 9. turnover margin, lines 1736-1753
           IF margin_diff > 1000 THEN ToHome(1500)
           ELSE IF margin_diff > 500 THEN ToHome(750)
           ELSE IF margin_diff < -1000 THEN ToAway(1500)
           ELSE IF margin_diff < -500 THEN ToAway(750) ELSE Nobody,
           \* injuries: the quarterbacks, lines 1769-1779
           IF ~both_reports THEN Nobody
           ELSE IF home_injury_impact.qb_injured /\ ~away_injury_impact.qb_injured THEN ToAway(5000)
           ELSE IF away_injury_impact.qb_injured /\ ~home_injury_impact.qb_injured THEN ToHome(5000)
           ELSE Nobody,
           \* injuries: the impact scores, lines 1780-1803
           IF ~both_reports THEN Nobody
           ELSE IF Abs(impact_diff) < 3000
                   /\ ~(home_injury_impact.qb_injured \/ away_injury_impact.qb_injured) THEN Nobody
           ELSE IF impact_diff > 10000 THEN ToHome(3000)
           ELSE IF impact_diff > 5000 THEN ToHome(2000)
           ELSE IF impact_diff > 3000 THEN ToHome(1000)
           ELSE IF impact_diff < -10000 THEN ToAway(3000)
           ELSE IF impact_diff < -5000 THEN ToAway(2000)
           ELSE IF impact_diff < -3000 THEN ToAway(1000) ELSE Nobody >>

\* What advanced_prediction returns or raises, given what its calls returned:
\* an exception of one of them ends the prediction, and so does a key the
\* report or the injury rule reads from a dict that lacks it.
prediction_outcome(home_avg, away_avg, league, home_strength_adj, away_strength_adj, home_injury_impact, away_injury_impact, report_keys, rule_keys, steps) ==
    IF FirstRaised(<<home_avg, away_avg>>) # None
    THEN FirstRaised(<<home_avg, away_avg>>)
    ELSE IF home_avg = None \/ away_avg = None THEN None
    ELSE IF FirstRaised(league) # None THEN FirstRaised(league)
    ELSE IF ReadsMissing(home_strength_adj, {"faced_tough_defenses", "faced_weak_defenses"})
    THEN Raised("KeyError")
    ELSE IF DOMAIN home_injury_impact # {} /\ ReadsMissing(home_injury_impact, report_keys)
    THEN Raised("KeyError")
    ELSE IF ReadsMissing(away_strength_adj, {"faced_tough_defenses", "faced_weak_defenses"})
    THEN Raised("KeyError")
    ELSE IF DOMAIN away_injury_impact # {} /\ ReadsMissing(away_injury_impact, report_keys)
    THEN Raised("KeyError")
    ELSE IF /\ DOMAIN home_injury_impact # {} /\ DOMAIN away_injury_impact # {}
            /\ \/ ReadsMissing(home_injury_impact, rule_keys)
               \/ ReadsMissing(away_injury_impact, rule_keys)
    THEN Raised("KeyError")
    ELSE [returned |-> "dict",
          home_points |-> Sum(Each(steps, LAMBDA step : step[1])),
          away_points |-> Sum(Each(steps, LAMBDA step : step[2]))]

\* advanced_prediction once the averages and the injury reports are there:
\* the remaining calls in the code's order, then the rules.
nfl_predicted(home_team, away_team, data, is_neutral, home_avg, away_avg, home_injury_impact, away_injury_impact) ==
    prediction_outcome(home_avg, away_avg,
            \* calculate_opponent_quality and calculate_strength_adjusted_stats
            \* of the home team: the averages of its opponents, then of
            \* every team
            Each(SelectSeq(data.rows[home_team], LAMBDA g : ~g.preseason),
                 LAMBDA g : calculate_team_averages(g.opponent, data, TRUE))
            \o Each(data.keys, LAMBDA tm : calculate_team_averages(tm, data, TRUE)),
            calculate_strength_adjusted_stats(home_team, data),
            calculate_strength_adjusted_stats(away_team, data),
            home_injury_impact, away_injury_impact, InjuryReportKeys, InjuryRuleKeys,
            nfl_matchup_rules(home_team, away_team, data, home_avg, away_avg)
            \o home_field(is_neutral, nfl_home_field(home_avg, away_avg))
            \o nfl_form_rules(home_team, away_team, data, home_avg, away_avg,
                              home_injury_impact, away_injury_impact))

\* advanced_prediction(home_team, away_team, teams_data, is_neutral,
\* injury_data), with the calls in the code's order: an exception of one of
\* them ends the prediction.
advanced_prediction(home_team, away_team, data, is_neutral, injury_data) ==
    IF home_team \notin DOMAIN data.rows \/ away_team \notin DOMAIN data.rows THEN None
    ELSE nfl_predicted(home_team, away_team, data, is_neutral,
             calculate_team_averages(home_team, data, TRUE),
             calculate_team_averages(away_team, data, TRUE),
             IF DOMAIN injury_data # {} THEN calculate_injury_impact(home_team, injury_data) ELSE EmptyDict,
             IF DOMAIN injury_data # {} THEN calculate_injury_impact(away_team, injury_data) ELSE EmptyDict)

(***************************************************************************)
(* CFB: src/CFB/predictor.py and src/CFB/injuryextract.py                  *)
(***************************************************************************)

\* calculate_team_averages(team, teams_data, exclude_postseason), lines
\* 317-439
cfb_calculate_team_averages(team, data, exclude_postseason) ==
    IF team \notin DOMAIN data.rows THEN None
    ELSE LET games == IF exclude_postseason
                      THEN SelectSeq(data.rows[team], LAMBDA g : ~g.postseason)
                      ELSE data.rows[team]
             off(key) == calculate_weighted_average(Each(games, LAMBDA g : Get(g.off_stats, key, 0)))
             def(key) == calculate_weighted_average(Each(games, LAMBDA g : Get(g.def_stats, key, 0)))
             points_scored_vals == Each(games, LAMBDA g : g.score_for)
             points_allowed_vals == Each(games, LAMBDA g : g.score_against)
             wins == Count(games, LAMBDA g : g.result = "W")
             pythagorean == pythagorean_exp(Pow237, Sum(points_scored_vals), Sum(points_allowed_vals))
         IN  IF games = <<>> THEN None
             ELSE IF pythagorean.returned # "float" THEN pythagorean
             ELSE [returned |-> "dict",
                   games_played |-> Len(games),
                   wins |-> wins,
                   win_rate |-> <<wins, Len(games)>>,
                   pythagorean_win_rate |-> pythagorean.value,
                   offense |->
                     [yards_per_play |-> off("yardsPerPlay"),
                      total_yards |-> off("totalYards"),
                      points_scored |-> calculate_weighted_average(Each(games, LAMBDA g : g.score_for * 1000)),
                      third_down_rate |-> off("thirdDownRate"),
                      turnovers |-> off("turnovers"),
                      rushing_yards |-> off("rushingYards"),
                      passing_yards |-> off("passingYards"),
                      sacks_made |-> off("sacks")],
                   defense |->
                     [yards_allowed |-> def("totalYards"),
                      yards_per_play_allowed |-> def("yardsPerPlay"),
                      points_allowed |-> calculate_weighted_average(Each(games, LAMBDA g : g.score_against * 1000)),
                      sacks_allowed |-> def("sacks"),
                      rushing_yards_allowed |-> def("rushingYards"),
                      passing_yards_allowed |-> def("passingYards")],
                   recent_form |-> recent_form(games),
                   close_games |-> close_games(games),
                   splits |-> splits(games),
                   turnover_margin |-> off("sacks") - off("turnovers")]

\* calculate_bounce_back_probability(team, teams_data), lines 442-510
cfb_calculate_bounce_back_probability(team, data) ==
    IF team \notin DOMAIN data.rows THEN NoBounceBack
    ELSE LET games == SelectSeq(data.rows[team], LAMBDA g : ~g.postseason)
             recent_games == LastGames(games, 3)
             recent_losses == SelectSeq(recent_games, LAMBDA g : g.result = "L")
             last_game == games[Len(games)]
             turnover_luck ==
                 IF /\ last_game.result = "L"
                    /\ Get(last_game.off_stats, "sacks", 0) - Get(last_game.off_stats, "turnovers", 0) <= -2000
                 THEN 1500 ELSE 0
             recent_3rd_down ==
                 Sum(Each(recent_games, LAMBDA g : Get(g.off_stats, "thirdDownRate", 0)))
                     \div Len(recent_games)
             third_down == IF recent_3rd_down <= 250 /\ recent_3rd_down > 0 THEN 1000 ELSE 0
             outgained(g) ==
                 Get(g.off_stats, "totalYards", 0) > Get(g.def_stats, "totalYards", 0) + 50000
             efficient(g) ==
                 Get(g.off_stats, "yardsPerPlay", 0) > Get(g.def_stats, "yardsPerPlay", 0) + 500
             played_well == FirstOf(recent_losses, LAMBDA g : outgained(g) \/ efficient(g))
             underlying ==
                 IF played_well = 0 THEN 0
                 ELSE IF outgained(recent_losses[played_well]) THEN 1500 ELSE 1000
             blowout ==
                 IF FirstOf(recent_losses, LAMBDA g : g.score_against - g.score_for >= 20) # 0
                 THEN 500 ELSE 0
             bounce_back_score == turnover_luck + third_down + underlying + blowout
         IN  IF Len(games) < 2 THEN NoBounceBack
             ELSE IF Len(recent_losses) < 2 THEN NoBounceBack
             ELSE [bounce_back_score |-> bounce_back_score,
                   has_bounce_back_potential |-> bounce_back_score >= 2000]

\* calculate_opponent_quality(team, teams_data), lines 513-532
cfb_calculate_opponent_quality(team, data) ==
    IF team \notin DOMAIN data.rows THEN 500
    ELSE opponent_quality(
             Each(SelectSeq(Each(SelectSeq(data.rows[team], LAMBDA g : ~g.postseason),
                                 LAMBDA g : cfb_calculate_team_averages(g.opponent, data, TRUE)),
                            LAMBDA opp_avg : opp_avg.returned = "dict"),
                  LAMBDA opp_avg : Milli(opp_avg.win_rate)))

\* calculate_strength_adjusted_stats(team, teams_data), lines 535-591: the
\* NFL function with the postseason games left out
cfb_calculate_strength_adjusted_stats(team, data) ==
    IF team \notin DOMAIN data.rows THEN NoAdjustment
    ELSE all_defenses(SelectSeq(data.rows[team], LAMBDA g : ~g.postseason),
                      SelectSeq(Each(data.keys, LAMBDA tm : [team |-> tm, avg |->
                                        cfb_calculate_team_averages(tm, data, TRUE)]),
                                LAMBDA stats : stats.avg.returned = "dict"))

\* calculate_injury_impact(team, injury_data) of src/CFB/injuryextract.py,
\* lines 48-124: None (the empty dict here) for a team without injuries
cfb_calculate_injury_impact(team, injury_data) ==
    IF team \notin DOMAIN injury_data THEN EmptyDict
    ELSE LET team_injuries == injury_data[team]
             position_weights_get(position) ==
                 CASE position = <<"Q", "B">> -> 5000
                   [] position \in {<<"R", "B">>, <<"D", "L">>} -> 2500
                   [] position \in {<<"W", "R">>, <<"O", "L">>, <<"L", "B">>, <<"C", "B">>} -> 2000
                   [] position \in {<<"T", "E">>, <<"S">>} -> 1500
                   [] position = <<"K">> -> 500
                   [] position = <<"P">> -> 300
                   [] OTHER -> 1000
             status_weights_get(status) ==
                 CASE status = <<"O", "U", "T">> -> 1000
                   [] status = <<"D", "O", "U", "B", "T", "F", "U", "L">> -> 750
                   [] status = <<"Q", "U", "E", "S", "T", "I", "O", "N", "A", "B", "L", "E">> -> 400
                   [] status = <<"P", "R", "O", "B", "A", "B", "L", "E">> -> 100
                   [] OTHER -> 500
             is_out(i) == Contains(Upper(i.status), <<"O", "U", "T">>) \/ Contains(Upper(i.status), <<"I", "R">>)
             is_doubtful(i) == ~is_out(i) /\ Contains(Upper(i.status), <<"D", "O", "U", "B", "T">>)
             is_questionable(i) ==
                 ~is_out(i) /\ ~is_doubtful(i) /\ Contains(Upper(i.status), <<"Q", "U", "E", "S", "T", "I", "O", "N">>)
         IN  IF team_injuries = <<>> THEN EmptyDict
             ELSE [total_injuries |-> Len(team_injuries),
                   out |-> Count(team_injuries, is_out),
                   doubtful |-> Count(team_injuries, is_doubtful),
                   questionable |-> Count(team_injuries, is_questionable),
                   impact_score |->
                       Sum(Each(team_injuries,
                                LAMBDA i : Prod(position_weights_get(Upper(i.position)),
                                                status_weights_get(Upper(i.status))))),
                   qb_injured |-> \E k \in 1..Len(team_injuries) :
                                      /\ Upper(team_injuries[k].position) = <<"Q", "B">>
                                      /\ Upper(team_injuries[k].status) \in {<<"O", "U", "T">>, <<"D", "O", "U", "B", "T", "F", "U", "L">>, <<"I", "R">>},
                   injury_list |->
                       Each(SelectSeq(team_injuries, LAMBDA i : is_out(i) \/ is_doubtful(i)),
                            LAMBDA i : i.player)]

\* The keys the CFB injury report of lines 662-672 and 706-716 prints, and
\* the ones the injury rule of lines 1142-1189 reads.
CfbInjuryReportKeys ==
    {"total_injuries", "out", "doubtful", "questionable", "impact_score", "qb_injured", "injury_list"}

CfbInjuryRuleKeys == {"impact_score", "out", "doubtful", "key_injuries", "qb_injured"}

\* The CFB rules of lines 727-975, each as the points it adds to
\* <<home_points, away_points>>, in the code's order.
cfb_matchup_points(home_avg, away_avg, home_opp_quality, away_opp_quality, home_strength_adj, away_strength_adj) ==
    LET home_off_vs_away_def ==
            <<home_avg.offense.yards_per_play, away_avg.defense.yards_per_play_allowed + 100>>
        away_off_vs_home_def ==
            <<away_avg.offense.yards_per_play, home_avg.defense.yards_per_play_allowed + 100>>
        home_rush_vs_away_rush_d ==
            <<home_avg.offense.rushing_yards, away_avg.defense.rushing_yards_allowed + 100>>
        away_rush_vs_home_rush_d ==
            <<away_avg.offense.rushing_yards, home_avg.defense.rushing_yards_allowed + 100>>
        home_pass_vs_away_pass_d ==
            <<home_avg.offense.passing_yards, away_avg.defense.passing_yards_allowed + 100>>
        away_pass_vs_home_pass_d ==
            <<away_avg.offense.passing_yards, home_avg.defense.passing_yards_allowed + 100>>
        points_ratio_home ==
            <<home_avg.offense.points_scored, away_avg.defense.points_allowed + 100>>
        points_ratio_away ==
            <<away_avg.offense.points_scored, home_avg.defense.points_allowed + 100>>
        third_down_diff == home_avg.offense.third_down_rate - away_avg.offense.third_down_rate
        home_sack_diff == home_avg.offense.sacks_made - home_avg.defense.sacks_allowed
        away_sack_diff == away_avg.offense.sacks_made - away_avg.defense.sacks_allowed
        sack_matchup_diff == home_sack_diff - away_sack_diff
        home_momentum == home_avg.recent_form.win_rate
        away_momentum == away_avg.recent_form.win_rate
    IN  << \* 1. offensive vs defensive matchup, lines 727-765
           IF Above(home_off_vs_away_def, 1200) THEN ToHome(3500)
           ELSE IF Above(home_off_vs_away_def, 1100) THEN ToHome(2500)
           ELSE IF Above(home_off_vs_away_def, 1000) THEN ToHome(1500)
           ELSE IF Below(home_off_vs_away_def, 850) THEN ToAway(2000)
           ELSE IF Below(home_off_vs_away_def, 950) THEN ToAway(1000) ELSE Nobody,
           IF Above(away_off_vs_home_def, 1200) THEN ToAway(3500)
           ELSE IF Above(away_off_vs_home_def, 1100) THEN ToAway(2500)
           ELSE IF Above(away_off_vs_home_def, 1000) THEN ToAway(1500)
           ELSE IF Below(away_off_vs_home_def, 850) THEN ToHome(2000)
           ELSE IF Below(away_off_vs_home_def, 950) THEN ToHome(1000) ELSE Nobody,
           \* 2. run game vs run defense, lines 767-794
           IF Above(home_rush_vs_away_rush_d, 1300) THEN ToHome(2500)
           ELSE IF Above(home_rush_vs_away_rush_d, 1100) THEN ToHome(1500)
           ELSE IF Above(home_rush_vs_away_rush_d, 1000) THEN ToHome(750) ELSE Nobody,
           IF Above(away_rush_vs_home_rush_d, 1300) THEN ToAway(2500)
           ELSE IF Above(away_rush_vs_home_rush_d, 1100) THEN ToAway(1500)
           ELSE IF Above(away_rush_vs_home_rush_d, 1000) THEN ToAway(750) ELSE Nobody,
           \* 3. pass game vs pass defense, lines 796-823
           IF Above(home_pass_vs_away_pass_d, 1300) THEN ToHome(2500)
           ELSE IF Above(home_pass_vs_away_pass_d, 1100) THEN ToHome(1500)
           ELSE IF Above(home_pass_vs_away_pass_d, 1000) THEN ToHome(750) ELSE Nobody,
           IF Above(away_pass_vs_home_pass_d, 1300) THEN ToAway(2500)
           ELSE IF Above(away_pass_vs_home_pass_d, 1100) THEN ToAway(1500)
           ELSE IF Above(away_pass_vs_home_pass_d, 1000) THEN ToAway(750) ELSE Nobody,
           \* 4. scoring efficiency, lines 825-846
           IF Above(points_ratio_home, 1250) THEN ToHome(2500)
           ELSE IF Above(points_ratio_home, 1150) THEN ToHome(1500) ELSE Nobody,
           IF Above(points_ratio_away, 1250) THEN ToAway(2500)
           ELSE IF Above(points_ratio_away, 1150) THEN ToAway(1500) ELSE Nobody,
           \* third down efficiency, lines 848-868
           IF third_down_diff > 80 THEN ToHome(1500)
           ELSE IF third_down_diff > 40 THEN ToHome(750)
           ELSE IF third_down_diff < -80 THEN ToAway(1500)
           ELSE IF third_down_diff < -40 THEN ToAway(750) ELSE Nobody,
           \* pass rush pressure, lines 870-890
           IF sack_matchup_diff > 1000 THEN ToHome(1500)
           ELSE IF sack_matchup_diff > 500 THEN ToHome(750)
           ELSE IF sack_matchup_diff < -1000 THEN ToAway(1500)
           ELSE IF sack_matchup_diff < -500 THEN ToAway(750) ELSE Nobody,
           \* 5. momentum, lines 892-921
           IF home_momentum = 1000 /\ home_avg.recent_form.games >= 3 THEN ToHome(2000)
           ELSE IF home_momentum >= 670 THEN ToHome(1000)
           ELSE IF home_momentum = 0 /\ home_avg.recent_form.games >= 3 THEN ToAway(1500)
           ELSE Nobody,
           IF away_momentum = 1000 /\ away_avg.recent_form.games >= 3 THEN ToAway(2000)
           ELSE IF away_momentum >= 670 THEN ToAway(1000)
           ELSE IF away_momentum = 0 /\ away_avg.recent_form.games >= 3 THEN ToHome(1500)
           ELSE Nobody,
           \* 6. opponent quality adjustment, lines 923-939
           IF Milli(home_avg.win_rate) >= 500 /\ home_opp_quality > away_opp_quality + 150
           THEN ToHome(1500)
           ELSE IF Milli(home_avg.win_rate) >= 500 /\ home_opp_quality > away_opp_quality + 50
           THEN ToHome(750)
           ELSE IF Milli(away_avg.win_rate) >= 500 /\ away_opp_quality > home_opp_quality + 150
           THEN ToAway(1500)
           ELSE IF Milli(away_avg.win_rate) >= 500 /\ away_opp_quality > home_opp_quality + 50
           THEN ToAway(750) ELSE Nobody,
           \* strength of schedule, lines 941-961
           IF home_strength_adj.faced_tough_defenses /\ home_avg.offense.points_scored > 22000
           THEN ToHome(1500)
           ELSE IF home_strength_adj.faced_weak_defenses THEN ToHome(-2000) ELSE Nobody,
           IF away_strength_adj.faced_tough_defenses /\ away_avg.offense.points_scored > 22000
           THEN ToAway(1500)
           ELSE IF away_strength_adj.faced_weak_defenses THEN ToAway(-2000) ELSE Nobody,
           \* close game performance, lines 963-975
           IF home_avg.close_games.total >= 3 /\ home_avg.close_games.win_rate > 600
           THEN ToHome(1000) ELSE Nobody,
           IF away_avg.close_games.total >= 3 /\ away_avg.close_games.win_rate > 600
           THEN ToAway(1000) ELSE Nobody >>

\* The calls the CFB matchup rules make (lines 651-652 and 695-696)
cfb_matchup_rules(home_team, away_team, data, home_avg, away_avg) ==
    cfb_matchup_points(
        home_avg, away_avg,
        cfb_calculate_opponent_quality(home_team, data),
        cfb_calculate_opponent_quality(away_team, data),
        cfb_calculate_strength_adjusted_stats(home_team, data),
        cfb_calculate_strength_adjusted_stats(away_team, data))

\* 7. the CFB home field advantage of lines 977-1023, the else branch of
\* "if is_neutral"
cfb_home_field(home_avg, away_avg) ==
    LET home_advantage_strength == home_avg.splits.home_advantage
        hfa_points ==
            IF home_advantage_strength > 250 THEN 4000
            ELSE IF home_advantage_strength > 150 THEN 3500
            ELSE IF home_advantage_strength > 50 THEN 3000
            ELSE IF home_advantage_strength < -100 THEN 1000
            ELSE 2500
    IN  << ToHome(hfa_points),
           IF away_avg.splits.away_win_rate >= 700
           THEN (IF away_avg.splits.away_win_rate > home_avg.splits.home_win_rate
                 THEN ToAway(1500) ELSE ToAway(1000))
           ELSE IF away_avg.splits.away_win_rate < 300 THEN ToHome(500) ELSE Nobody >>

\* The CFB rules of lines 1025-1189
cfb_form_rules(home_team, away_team, data, home_avg, away_avg, home_injury_impact, away_injury_impact) ==
    LET home_rz_eff ==
            IF home_avg.offense.total_yards > 0
            THEN Quot(home_avg.offense.points_scored, home_avg.offense.total_yards \div 100)
            ELSE 0
        away_rz_eff ==
            IF away_avg.offense.total_yards > 0
            THEN Quot(away_avg.offense.points_scored, away_avg.offense.total_yards \div 100)
            ELSE 0
        home_win_pts == Quot(home_avg.win_rate[1] * 3, home_avg.win_rate[2])
        away_win_pts == Quot(away_avg.win_rate[1] * 3, away_avg.win_rate[2])
        home_bounce_back == cfb_calculate_bounce_back_probability(home_team, data)
        away_bounce_back == cfb_calculate_bounce_back_probability(away_team, data)
        home_pyth_diff == Milli(home_avg.win_rate) - Milli(home_avg.pythagorean_win_rate)
        away_pyth_diff == Milli(away_avg.win_rate) - Milli(away_avg.pythagorean_win_rate)
        margin_diff == home_avg.turnover_margin - away_avg.turnover_margin
        both_reports == DOMAIN home_injury_impact # {} /\ DOMAIN away_injury_impact # {}
        impact_diff == away_injury_impact.impact_score - home_injury_impact.impact_score
    IN  << \* red zone efficiency, lines 1025-1046
           IF home_rz_eff * 1000 > away_rz_eff * 1150 THEN ToHome(1500)
           ELSE IF home_rz_eff * 1000 > away_rz_eff * 1050 THEN ToHome(750)
           ELSE IF away_rz_eff * 1000 > home_rz_eff * 1150 THEN ToAway(1500)
           ELSE IF away_rz_eff * 1000 > home_rz_eff * 1050 THEN ToAway(750) ELSE Nobody,
           \* 8. win rate, lines 1048-1056
           <<home_win_pts, away_win_pts>>,
           \* bounce-back analysis, lines 1062-1083
           IF home_bounce_back.has_bounce_back_potential
           THEN ToHome(home_bounce_back.bounce_back_score) ELSE Nobody,
           IF away_bounce_back.has_bounce_back_potential
           THEN ToAway(away_bounce_back.bounce_back_score) ELSE Nobody,
           \* Pythagorean expectation, lines 1085-1098
           IF home_pyth_diff > 150 THEN ToHome(-1000) ELSE Nobody,
           IF away_pyth_diff > 150 THEN ToAway(-1000) ELSE Nobody,
           \* record quality, lines 1100-1120
           IF home_avg.win_rate[1] = 0 THEN ToHome(-3000)
           ELSE IF Milli(home_avg.win_rate) < 200 THEN ToHome(-2500)
           ELSE IF Milli(home_avg.win_rate) < 400 THEN ToHome(-1500) ELSE Nobody,
           IF away_avg.win_rate[1] = 0 THEN ToAway(-3000)
           ELSE IF Milli(away_avg.win_rate) < 200 THEN ToAway(-2500)
           ELSE IF Milli(away_avg.win_rate) < 400 THEN ToAway(-1500) ELSE Nobody,
           \* 9. turnover margin, lines 1122-1139
           IF margin_diff > 1000 THEN ToHome(1500)
           ELSE IF margin_diff > 500 THEN ToHome(750)
           ELSE IF margin_diff < -1000 THEN ToAway(1500)
           ELSE IF margin_diff < -500 THEN ToAway(750) ELSE Nobody,
           \* injuries: the quarterbacks, lines 1156-1165
           IF ~both_reports THEN Nobody
           ELSE IF home_injury_impact.qb_injured /\ ~away_injury_impact.qb_injured THEN ToAway(5000)
           ELSE IF away_injury_impact.qb_injured /\ ~home_injury_impact.qb_injured THEN ToHome(5000)
           ELSE Nobody,
           \* injuries: the impact scores, lines 1167-1189
           IF ~both_reports THEN Nobody
           ELSE IF Abs(impact_diff) < 3000
                   /\ ~(home_injury_impact.qb_injured \/ away_injury_impact.qb_injured) THEN Nobody
           ELSE IF impact_diff > 10000 THEN ToHome(3000)
           ELSE IF impact_diff > 5000 THEN ToHome(2000)
           ELSE IF impact_diff > 3000 THEN ToHome(1000)
           ELSE IF impact_diff < -10000 THEN ToAway(3000)
           ELSE IF impact_diff < -5000 THEN ToAway(2000)
           ELSE IF impact_diff < -3000 THEN ToAway(1000) ELSE Nobody >>

\* advanced_prediction once the averages and the injury reports are there:
\* the remaining calls in the code's order, then the rules.
cfb_predicted(home_team, away_team, data, is_neutral, home_avg, away_avg, home_injury_impact, away_injury_impact) ==
    prediction_outcome(home_avg, away_avg,
            \* calculate_opponent_quality and calculate_strength_adjusted_stats
            \* of the home team: the averages of its opponents, then of
            \* every team
            Each(SelectSeq(data.rows[home_team], LAMBDA g : ~g.postseason),
                 LAMBDA g : cfb_calculate_team_averages(g.opponent, data, TRUE))
            \o Each(data.keys, LAMBDA tm : cfb_calculate_team_averages(tm, data, TRUE)),
            cfb_calculate_strength_adjusted_stats(home_team, data),
            cfb_calculate_strength_adjusted_stats(away_team, data),
            home_injury_impact, away_injury_impact, CfbInjuryReportKeys, CfbInjuryRuleKeys,
            cfb_matchup_rules(home_team, away_team, data, home_avg, away_avg)
            \o home_field(is_neutral, cfb_home_field(home_avg, away_avg))
            \o cfb_form_rules(home_team, away_team, data, home_avg, away_avg,
                              home_injury_impact, away_injury_impact))

\* advanced_prediction(home_team, away_team, teams_data, is_neutral,
\* injury_data) of src/CFB/predictor.py, lines 594-1196, with the calls in
\* the code's order: an exception of one of them ends the prediction.
cfb_advanced_prediction(home_team, away_team, data, is_neutral, injury_data) ==
    IF home_team \notin DOMAIN data.rows \/ away_team \notin DOMAIN data.rows THEN None
    ELSE cfb_predicted(home_team, away_team, data, is_neutral,
             cfb_calculate_team_averages(home_team, data, FALSE),
             cfb_calculate_team_averages(away_team, data, FALSE),
             IF DOMAIN injury_data # {} THEN cfb_calculate_injury_impact(home_team, injury_data) ELSE EmptyDict,
             IF DOMAIN injury_data # {} THEN cfb_calculate_injury_impact(away_team, injury_data) ELSE EmptyDict)

(***************************************************************************)
(* MLB: src/MLB/predictor.py                                               *)
(***************************************************************************)

\* 2.0 ** (i / len(values)) for i in range(len(values)), len(values) from 4 to 8
MlbRecencyWeights ==
    [n \in 4..8 |-> CASE n = 4 -> <<1000, 1189, 1414, 1682>>
                      [] n = 5 -> <<1000, 1149, 1320, 1516, 1741>>
                      [] n = 6 -> <<1000, 1122, 1260, 1414, 1587, 1782>>
                      [] n = 7 -> <<1000, 1104, 1219, 1346, 1486, 1641, 1811>>
                      [] n = 8 -> <<1000, 1091, 1189, 1297, 1414, 1542, 1682, 1834>>]

\* calculate_weighted_average(values), lines 256-281: as the NFL one, with
\* weights growing to twice for the latest value
mlb_calculate_weighted_average(values) ==
    IF values = <<>> THEN 0
    ELSE IF Len(values) <= 3 THEN Sum(values) \div Len(values)
    ELSE LET weights == MlbRecencyWeights[Len(values)]
             total_weight == Sum(weights)
             weighted == [i \in 1..Len(values) |-> values[i] * weights[i]]
         IN  Sum([i \in 1..Len(values) |-> weighted[i] \div total_weight])
             + Sum([i \in 1..Len(values) |-> weighted[i] % total_weight]) \div total_weight

\* calculate_team_averages(team, teams_data), lines 284-381
mlb_calculate_team_averages(team, data) ==
    IF team \notin DOMAIN data.rows THEN None
    ELSE LET games == data.rows[team]
             batting(key) ==
                 mlb_calculate_weighted_average(Each(games, LAMBDA g : Get(g.batting_stats, key, 0)))
             opponent(key) ==
                 mlb_calculate_weighted_average(Each(games, LAMBDA g : Get(g.opponent_batting, key, 0)))
             runs_scored_vals == Each(games, LAMBDA g : g.runs_for)
             runs_allowed_vals == Each(games, LAMBDA g : g.runs_against)
             avg_runs_scored == mlb_calculate_weighted_average(Each(games, LAMBDA g : g.runs_for * 1000))
             avg_runs_allowed == mlb_calculate_weighted_average(Each(games, LAMBDA g : g.runs_against * 1000))
             recent_games == LastGames(games, 10)
             recent_wins == Count(recent_games, LAMBDA g : g.result = "W")
             wins == Count(games, LAMBDA g : g.result = "W")
             home_games == SelectSeq(games, LAMBDA g : g.location = "home")
             away_games == SelectSeq(games, LAMBDA g : g.location = "away")
             home_wins == Count(home_games, LAMBDA g : g.result = "W")
             away_wins == Count(away_games, LAMBDA g : g.result = "W")
             home_win_rate == IF home_games # <<>> THEN Quot(home_wins, Len(home_games)) ELSE 500
             away_win_rate == IF away_games # <<>> THEN Quot(away_wins, Len(away_games)) ELSE 500
             pythagorean == pythagorean_exp(Pow183, Sum(runs_scored_vals), Sum(runs_allowed_vals))
         IN  IF games = <<>> THEN None
             ELSE IF pythagorean.returned # "float" THEN pythagorean
             ELSE [returned |-> "dict",
                   games_played |-> Len(games),
                   wins |-> wins,
                   win_rate |-> <<wins, Len(games)>>,
                   pythagorean_win_rate |-> pythagorean.value,
                   batting |->
                     [runs_per_game |-> avg_runs_scored,
                      avg |-> batting("avg"),
                      obp |-> batting("obp"),
                      slg |-> batting("slg"),
                      ops |-> batting("obp") + batting("slg"),
                      hr_per_game |-> batting("hr"),
                      hits_per_game |-> batting("hits")],
                   pitching |->
                     [runs_allowed_per_game |-> avg_runs_allowed,
                      hits_allowed_per_game |-> opponent("hits"),
                      errors_per_game |-> batting("errors")],
                   recent_form |->
                     [wins |-> recent_wins, games |-> Len(recent_games),
                      win_rate |-> Quot(recent_wins, Len(recent_games)),
                      runs_scored |-> Quot(Sum(Each(recent_games, LAMBDA g : g.runs_for)), Len(recent_games)),
                      runs_allowed |-> Quot(Sum(Each(recent_games, LAMBDA g : g.runs_against)), Len(recent_games))],
                   splits |->
                     [home_win_rate |-> home_win_rate, away_win_rate |-> away_win_rate,
                      home_advantage |-> home_win_rate - away_win_rate],
                   run_differential |-> avg_runs_scored - avg_runs_allowed]

(***************************************************************************)
(* Part III specifications: the statistics of a season file                *)
(***************************************************************************)

\* An injuries file of the NFL (load_injury_data of src/NFL/injuryextract.py):
\* the Giants have no entry
NflInjuries ==
    (Jets :> << [player_name |-> <<"A">>, status |-> <<"O", "u", "t">>, detail |-> <<"Q", "u", "a", "r", "t", "e", "r", "b", "a", "c", "k", ",", " ", "k", "n", "e", "e">>],
                [player_name |-> <<"B">>, status |-> <<"Q", "u", "e", "s", "t", "i", "o", "n", "a", "b", "l", "e">>, detail |-> <<"c", "a", "u", "g", "h", "t", " ", "t", "w", "o", " ", "p", "a", "s", "s", "e", "s">>],
                [player_name |-> <<"C">>, status |-> <<"A", "c", "t", "i", "v", "e">>, detail |-> <<>>] >>)
    @@ (Niners :> << [player_name |-> <<"D">>, status |-> <<"D", "o", "u", "b", "t", "f", "u", "l">>, detail |-> <<"r", "u", "s", "h", "i", "n", "g">>] >>)

\* An injuries file of college football (load_injury_data of
\* src/CFB/injuryextract.py): the Giants have no entry
CfbInjuries ==
    (Jets :> << [player |-> <<"A">>, position |-> <<"q", "b">>, status |-> <<"O", "u", "t">>],
                [player |-> <<"B">>, position |-> <<"W", "R">>, status |-> <<"Q", "u", "e", "s", "t", "i", "o", "n", "a", "b", "l", "e">>] >>)
    @@ (Niners :> << [player |-> <<"D">>, position |-> <<"R", "B">>, status |-> <<"D", "o", "u", "b", "t", "f", "u", "l">>] >>)

Sports == {"NFL", "CFB", "MLB"}

\* The sports with an advanced_prediction of this shape
FootballSports == {"NFL", "CFB"}

InjuriesOf(sport) == IF sport = "NFL" THEN NflInjuries ELSE CfbInjuries

\* calculate_team_averages of the sport's predictor.py, as advanced_prediction
\* and the menus call it
TeamAverages(sport, team, data) ==
    CASE sport = "NFL" -> calculate_team_averages(team, data, TRUE)
      [] sport = "CFB" -> cfb_calculate_team_averages(team, data, FALSE)
      [] sport = "MLB" -> mlb_calculate_team_averages(team, data)

\* advanced_prediction of the sport's predictor.py
Prediction(sport, home_team, away_team, data, is_neutral, injury_data) ==
    IF sport = "NFL"
    THEN advanced_prediction(home_team, away_team, data, is_neutral, injury_data)
    ELSE cfb_advanced_prediction(home_team, away_team, data, is_neutral, injury_data)

\* A season file was parsed; nothing was asked yet.
InitStats ==
    /\ ApiQuiet
    /\ DataQuiet
    /\ schedule \in Schedules
    /\ called = NoCall
    /\ response = NoResult

\* calculate_team_averages(team, teams_data) on the parsed file
Averages(sport, team) ==
    /\ called = NoCall
    /\ called' = [fn |-> "calculate_team_averages", sport |-> sport, team |-> team]
    /\ response' = TeamAverages(sport, team, DataOf(sport, schedule))
    /\ UNCHANGED <<apiVars, dataVars, schedule>>

\* advanced_prediction(home_team, away_team, teams_data, is_neutral,
\* injury_data) on the parsed file
Predict(sport, home_team, away_team, is_neutral, injury_data) ==
    /\ called = NoCall
    /\ called' = [fn |-> "advanced_prediction", sport |-> sport,
                  home_team |-> home_team, away_team |-> away_team,
                  is_neutral |-> is_neutral, injury_data |-> injury_data]
    /\ response' = Prediction(sport, home_team, away_team, DataOf(sport, schedule),
                              is_neutral, injury_data)
    /\ UNCHANGED <<apiVars, dataVars, schedule>>

NextStats ==
    \/ \E sport \in Sports, team \in Teams : Averages(sport, team)
    \/ \E sport \in FootballSports, home_team \in Teams, away_team \in Teams,
          is_neutral \in BOOLEAN :
          /\ home_team # away_team
          /\ \E injury_data \in {EmptyDict, InjuriesOf(sport)} :
                Predict(sport, home_team, away_team, is_neutral, injury_data)

SpecStats == InitStats /\ [][NextStats]_vars

\* The largest total of points or runs the Pythagorean check tries.
MaxTotal == 50

PowOf(sport) == IF sport = "MLB" THEN Pow183 ELSE Pow237

InitPyth ==
    /\ ApiQuiet
    /\ DataQuiet
    /\ StatsQuiet

\* The Pythagorean expectation of calculate_team_averages for the totals of
\* a team's games
Pythagorean(sport, total_points_scored, total_points_allowed) ==
    /\ called = NoCall
    /\ called' = [fn |-> "pythagorean_exp", sport |-> sport,
                  total_points_scored |-> total_points_scored,
                  total_points_allowed |-> total_points_allowed]
    /\ response' = pythagorean_exp(PowOf(sport), total_points_scored, total_points_allowed)
    /\ UNCHANGED <<apiVars, dataVars, schedule>>

NextPyth ==
    \E sport \in Sports, total_points_scored \in 0..MaxTotal, total_points_allowed \in 0..MaxTotal :
        Pythagorean(sport, total_points_scored, total_points_allowed)

SpecPyth == InitPyth /\ [][NextPyth]_vars

(***************************************************************************)
(* Part III properties                                                     *)
(***************************************************************************)

\* The games of the parsed file a sport's calculate_team_averages counts for
\* a team: the decided ones it played, without the preseason in the NFL
CountedBlocks(sport, team) ==
    SelectSeq([i \in 1..Len(schedule) |-> Season[schedule[i]]],
              LAMBDA b : /\ team \in {b.away_team, b.home_team}
                         /\ b.away_score # b.home_score
                         /\ sport = "NFL" => b.week # "PRESEASON")

WonBlocks(sport, team) ==
    SelectSeq(CountedBlocks(sport, team),
              LAMBDA b : IF b.away_team = team THEN b.away_score > b.home_score
                         ELSE b.home_score > b.away_score)

\* C6: for any team with at least one counted game in the parsed data,
\* calculate_team_averages returns a result whose win_rate is wins /
\* games_played exactly, wins the number of its counted games it won and
\* games_played the number of its counted games.
C6_WinRate ==
    (/\ called.fn = "calculate_team_averages"
     /\ CountedBlocks(called.sport, called.team) # <<>>)
    => /\ response.returned = "dict"
       /\ response.wins = Len(WonBlocks(called.sport, called.team))
       /\ response.games_played = Len(CountedBlocks(called.sport, called.team))
       /\ response.win_rate = <<response.wins, response.games_played>>

Mirrored(prediction) ==
    IF prediction.returned = "dict"
    THEN [prediction EXCEPT !.home_points = prediction.away_points,
                            !.away_points = prediction.home_points]
    ELSE prediction

\* The prediction of the call just made with the home and away labels
\* swapped
SwappedPrediction ==
    Prediction(called.sport, called.away_team, called.home_team,
               DataOf(called.sport, schedule), called.is_neutral, called.injury_data)

\* C8: with is_neutral=True, advanced_prediction(A, B) gives A and B the
\* points advanced_prediction(B, A) gives them, for any two teams and any
\* data; a call that fails, fails for both orders.
C8_NeutralSymmetric ==
    (called.fn = "advanced_prediction" /\ called.is_neutral)
    => SwappedPrediction = Mirrored(response)

\* A neutral-site prediction that gives the two teams different points, on
\* data where the home field rules would have changed them.
C8_Witness ==
    /\ called.fn = "advanced_prediction"
    /\ called.is_neutral
    /\ response.returned = "dict"
    /\ response.home_points # response.away_points
    /\ SwappedPrediction.returned = "dict"
    /\ SwappedPrediction.away_points = response.home_points
    /\ Prediction(called.sport, called.home_team, called.away_team,
                  DataOf(called.sport, schedule), FALSE, called.injury_data) # response


(***************************************************************************)
(* Part IV: the predictors' pure functions on their own.                   *)
(*                                                                         *)
(* calculate_weighted_average(values, use_recency_weighting)               *)
(* (src/NFL/predictor.py:426-451, src/CFB/predictor.py:253-278,            *)
(* src/MLB/predictor.py:256-281) is called on lists of any values here.    *)
(* The arithmetic is exact fixed point: the rounding of the last binary    *)
(* place of a float is not modelled.                                       *)
(***************************************************************************)

\* The longest list tried, and the largest value in steps of 8.65.
MaxValues == 6

MaxValue == 2

ValueLists == UNION {[1..n -> {8650 * k : k \in 0..MaxValue}] : n \in 0..MaxValues}

\* calculate_weighted_average(values, use_recency_weighting) of the sport's
\* predictor.py: "if not use_recency_weighting or len(values) <= 3" returns
\* the plain mean
weighted_average(sport, values, use_recency_weighting) ==
    IF values # <<>> /\ ~use_recency_weighting THEN Sum(values) \div Len(values)
    ELSE IF sport = "MLB" THEN mlb_calculate_weighted_average(values)
    ELSE calculate_weighted_average(values)

InitAvg ==
    /\ ApiQuiet
    /\ DataQuiet
    /\ StatsQuiet

WeightedAverage(sport, values, use_recency_weighting) ==
    /\ called = NoCall
    /\ called' = [fn |-> "calculate_weighted_average", sport |-> sport, values |-> values,
                  use_recency_weighting |-> use_recency_weighting]
    /\ response' = [returned |-> "float",
                    value |-> weighted_average(sport, values, use_recency_weighting)]
    /\ UNCHANGED <<apiVars, dataVars, schedule>>

NextAvg ==
    /\ called = NoCall
    /\ \E sport \in Sports, values \in ValueLists, use_recency_weighting \in BOOLEAN :
          WeightedAverage(sport, values, use_recency_weighting)

SpecAvg == InitAvg /\ [][NextAvg]_vars

\* The values of the call are all the same.
ConstantList(values) == \A i \in 1..Len(values) : values[i] = values[1]

---------------------------------------------------------------------------
(***************************************************************************)
(* Part V: an extractor run whose summary requests may fail                *)
(* (src/NFL/dataextract.py:65-246, 377-546).  Up to here every request of  *)
(* get_game_details succeeded; in SpecFetch the run under observation gets *)
(* an answer per game from the summary endpoint: the box score, an error   *)
(* (HTTP status, timeout, invalid JSON, a structure the code cannot        *)
(* index), or a summary that lists no competitors.                         *)
(***************************************************************************)

\* Games whose summary request may fail in one run.
MaxFailures == 2

SummaryAnswers == {"ok", "error", "no_competitors"}

\* What the summary endpoint can do in one run, for the games that are final.
AnswersFor(games) ==
    {answer \in [games -> SummaryAnswers] :
        Cardinality({g \in games : answer[g] # "ok"}) <= MaxFailures}

\* get_game_details(game_id): None when anything raises inside the try
\* (lines 72-75, 168-170), else game_info, whose two team dicts stay empty
\* when the header lists no competitor (lines 82-99).
get_game_details(game_id, answer) ==
    IF answer[game_id] = "error" THEN None
    ELSE IF answer[game_id] = "no_competitors"
    THEN [away_team |-> EmptyDict, home_team |-> EmptyDict]
    ELSE [away_team |-> Catalogue[game_id].away_team,
          home_team |-> Catalogue[game_id].home_team]

\* not game_info or not game_info['away_team'] or not game_info['home_team']
\* (lines 219, 458)
not_usable(game_info) ==
    \/ game_info = None
    \/ DOMAIN game_info.away_team = {}
    \/ DOMAIN game_info.home_team = {}

\* The statement `continue` of the loop over game_ids: on to the next id.
stop_scraping(game_ids) == <<>>

next_game(game_ids) == Tail(game_ids)

RECURSIVE process_games(_, _, _, _)
\* for game_id in game_ids: ... (lines 214-245, 453-479): the game_data of
\* the games whose details are usable, in order; the others are skipped.
process_games(season_type, week_num, game_ids, answer) ==
    IF game_ids = <<>> THEN <<>>
    ELSE IF not_usable(get_game_details(Head(game_ids), answer))
    THEN process_games(season_type, week_num, next_game(game_ids), answer)
    ELSE <<game_data(season_type, week_num, Head(game_ids))>>
            \o process_games(season_type, week_num, Tail(game_ids), answer)

RECURSIVE FetchRange(_, _, _, _)
\* The rounds lo..hi of "for season_type, week_num in weeks", in order.
FetchRange(weeks, lo, hi, answer) ==
    IF lo > hi THEN <<>>
    ELSE IF lo = hi
    THEN process_games(weeks[lo][1], weeks[lo][2],
                       get_games_for_week(weeks[lo][1], weeks[lo][2]), answer)
    ELSE FetchRange(weeks, lo, (lo + hi) \div 2, answer)
            \o FetchRange(weeks, (lo + hi) \div 2 + 1, hi, answer)

\* The whole loop over the weeks.
FetchWeeks(weeks, answer) == FetchRange(weeks, 1, Len(weeks), answer)

InitFetch == ApiQuiet /\ DataQuiet /\ StatsQuiet

\* A first, undisturbed extraction: main() while nflData.txt does not exist.
FirstExtraction ==
    /\ ~nflData.exists
    /\ main

\* main() with the summary endpoint answering as `answer`:
\* all_games = scrape_nfl_scores(); write_to_file(all_games).
FetchMainEffect(fn, answer) ==
    /\ all_games' = FetchWeeks(weeks_config, answer)
    /\ nflData' = FileOf(write_to_file(FetchWeeks(weeks_config, answer)))
    /\ called' = [fn |-> fn, answer |-> answer, weeks |-> weeks_config,
                  before |-> nflData, full |-> TRUE]
    /\ response' = None

FetchMain(answer) ==
    /\ FetchMainEffect("main", answer)
    /\ runs' = runs + 1
    /\ UNCHANGED <<completed, teams_data, schedule>>
    /\ UNCHANGED apiVars

\* A writer that opens nflData.txt with mode 'w', as write_to_file does.
RewriteGames(file, new_games) == FileOf(write_to_file(new_games))

\* The append of update_mode (lines 482-546): nothing when no new game was
\* found (lines 477-479).
AppendGames(file, new_games) ==
    IF new_games = <<>> THEN file
    ELSE FileOf(file.lines \o GameLines(new_games, <<>>))

\* update_mode() from the week `last` on, with the endpoint answering as
\* `answer`
FetchUpdateEffect(last, weeks, answer) ==
    /\ all_games' = FetchWeeks(weeks, answer)
    /\ nflData' = AppendGames(nflData, FetchWeeks(weeks, answer))
    /\ called' = [fn |-> "update_mode", answer |-> answer, weeks |-> weeks,
                  before |-> nflData, full |-> FALSE,
                  season_type |-> last.season_type, week_num |-> last.week_num]
    /\ response' = None

FetchUpdateFrom(last, answer) ==
    IF ~last.found THEN FetchMainEffect("update_mode", answer)
    ELSE FetchUpdateEffect(last, weeks_to_scrape(last.season_type, last.week_num), answer)

FetchUpdate(answer) ==
    /\ FetchUpdateFrom(get_last_week_from_file(nflData), answer)
    /\ runs' = runs + 1
    /\ UNCHANGED <<completed, teams_data, schedule>>
    /\ UNCHANGED apiVars

NextFetch ==
    /\ called = NoCall
    /\ \/ \E g \in GameIds : CompleteGame(g)
       \/ FirstExtraction
       \/ \E answer \in AnswersFor(completed) : FetchMain(answer)
       \/ \E answer \in AnswersFor(completed) : FetchUpdate(answer)

SpecFetch == InitFetch /\ [][NextFetch]_vars

\* The game is listed in the scoreboard bucket of that week.
InBucket(game_id, week) ==
    \E k \in 1..Len(get_games_for_week(week[1], week[2])) :
        get_games_for_week(week[1], week[2])[k] = game_id

\* The run recorded the game under that week.
Recorded(game_id, week) ==
    \E k \in 1..Len(all_games) :
        all_games[k] = game_data(week[1], week[2], game_id)

\* C12: an error while fetching or processing one game skips only that game:
\* the run ends normally and every other completed game of every week it
\* went through, in the same week or a later one, is recorded.
C12_OnlyFailedGameSkipped ==
    called.fn \in {"main", "update_mode"} =>
        /\ response = None
        /\ \A i \in 1..Len(called.weeks) : \A g \in completed :
              (InBucket(g, called.weeks[i]) /\ called.answer[g] = "ok")
                  => Recorded(g, called.weeks[i])

\* An update run in which the first game of regular week 1 failed: the
\* second game of that week and the game of week 2 are recorded.
C12_Witness ==
    /\ called.fn = "update_mode"
    /\ {2, 3, 4} \subseteq completed
    /\ called.answer[2] = "error"
    /\ ~Recorded(2, <<"regular", 1>>)
    /\ Recorded(3, <<"regular", 1>>)
    /\ Recorded(4, <<"regular", 2>>)
    /\ response = None

\* The game lines of a file, in order.
GameLinesOf(file) == SelectSeq(file.lines, LAMBDA line : StartsWith(line, <<"[">>))

\* The game lines of a list of games, in order.
GameLinesFor(games) == [k \in 1..Len(games) |-> GameLine(games[k])]

\* The first file's content is the beginning of the second's.
IsPrefix(old, new) ==
    /\ Len(old.lines) <= Len(new.lines)
    /\ SubSeq(new.lines, 1, Len(old.lines)) = old.lines

\* C13: after a full extraction the file holds exactly the games of that run;
\* an update_mode run on a file that holds games appends: the file's previous
\* content is an unchanged prefix of its new content.
C13_OverwriteOrAppend ==
    /\ (called.fn = "main" => GameLinesOf(nflData) = GameLinesFor(all_games))
    /\ (called.fn = "update_mode" /\ GameLinesOf(called.before) # <<>>)
          => (~called.full /\ IsPrefix(called.before, nflData))

\* An update run added games to a file that held games.
C13_Witness ==
    /\ called.fn = "update_mode"
    /\ GameLinesOf(called.before) # <<>>
    /\ all_games # <<>>
    /\ IsPrefix(called.before, nflData)
    /\ Len(nflData.lines) > Len(called.before.lines)

\* A full extraction over a file that held games left a file without one of
\* them (its summary request failed this time).
C13_OverwriteWitness ==
    /\ called.fn = "main"
    /\ \E k \in 1..Len(GameLinesOf(called.before)) :
          \A j \in 1..Len(nflData.lines) :
              nflData.lines[j] # GameLinesOf(called.before)[k]

\* That week is the last scraped week or an earlier week of its season type.
AtOrBefore(week, season_type, week_num) ==
    week[1] = season_type /\ week[2] <= week_num

\* C14: when the file's last scraped week is W, update_mode requests no week
\* at or before W of that season type.
C14_OnlyLaterWeeks ==
    (called.fn = "update_mode" /\ ~called.full) =>
        \A i \in 1..Len(called.weeks) :
            ~AtOrBefore(called.weeks[i], called.season_type, called.week_num)

\* What the code does: week W itself is the first week requested, and no
\* week before it is.
C14_FromLastWeekOn ==
    (called.fn = "update_mode" /\ ~called.full) =>
        /\ called.weeks[1] = <<called.season_type, called.week_num>>
        /\ \A i \in 2..Len(called.weeks) :
              ~AtOrBefore(called.weeks[i], called.season_type, called.week_num)

\* The games of the last scraped week are in the file twice after the update.
C14_WeekWrittenTwice ==
    /\ called.fn = "update_mode"
    /\ ~called.full
    /\ \E j, k \in 1..Len(GameLinesOf(nflData)) :
          j < k /\ GameLinesOf(nflData)[j] = GameLinesOf(nflData)[k]

---------------------------------------------------------------------------
(***************************************************************************)
(* Part VI: what the endpoints of src/api/server.py answer                 *)
(* (lines 154-574).  Each endpoint awaits run_blocking(callable) and turns *)
(* the way the callable ended into its HTTP response.  A detail is the     *)
(* pair <<fixed text, str(exc)>> of the f-string it was built from.        *)
(***************************************************************************)

\* The worker callable returned `value`.
Returns(value) == [kind |-> "returns", value |-> value]

\* The worker callable raised an exception of that class with that message;
\* run_in_nfl_context's finally lets it through to the endpoint.
Raises(type, text) == [kind |-> "raises", type |-> type, text |-> text]

\* Exception classes the callables can raise: the ValueErrors of _predict
\* and _refresh (and their subclass UnicodeDecodeError, from reading a file
\* that is not UTF-8), OSErrors of open() and stat(), and what the
\* predictors raise on the data.
ExceptionTypes ==
    {"ValueError", "UnicodeDecodeError", "FileNotFoundError", "PermissionError",
     "KeyError", "ZeroDivisionError", "UnboundLocalError", "ConnectionError"}

ExceptionTexts ==
    {"NFL data is unavailable. Run dataextract.py first.",
     "Injury API returned no data.",
     "float division by zero"}

\* except ValueError catches the class and its subclasses.
IsValueError(type) == type \in {"ValueError", "UnicodeDecodeError"}

\* How a callable can end: with a payload, with an empty one, or raising.
CallableEnds ==
    {Returns(v) : v \in {"payload", "empty"}}
        \cup {Raises(type, text) : type \in ExceptionTypes, text \in ExceptionTexts}

\* The endpoint returned its payload: FastAPI answers 200.
Ok == [status |-> 200, detail |-> <<"", "">>, handled |-> TRUE]

\* raise HTTPException(status_code=..., detail=...)
HTTPException(status_code, detail) ==
    [status |-> status_code, detail |-> detail, handled |-> TRUE]

\* The exception leaves the endpoint function: no handler of server.py saw
\* it, and the answer is the framework's bare "Internal Server Error".
Unhandled(ends) ==
    [status |-> 500, detail |-> <<"Internal Server Error", "">>, handled |-> FALSE]

\* try: return await run_blocking(fn)
\* except Exception as exc: raise HTTPException(500, f"{prefix}{exc}")
except_exception(prefix, ends) ==
    IF ends.kind = "raises" THEN HTTPException(500, <<prefix, ends.text>>)
    ELSE Ok

\* get_data_status (lines 154-204)
get_data_status(ends) == except_exception("Failed to get data status: ", ends)

\* get_teams (lines 207-218): run_blocking is awaited outside any try
get_teams(ends) ==
    IF ends.kind = "raises" THEN Unhandled(ends)
    ELSE IF ends.value = "empty"
    THEN HTTPException(500, <<"NFL dataset not available. Run dataextract.py first.", "">>)
    ELSE Ok

\* predict_matchup (lines 221-254)
predict_matchup(ends) ==
    IF ends.kind = "raises" /\ IsValueError(ends.type)
    THEN HTTPException(400, <<"", ends.text>>)
    ELSE except_exception("Matchup prediction failed: ", ends)

\* run_batch_prediction (lines 257-281)
run_batch_prediction(ends) == except_exception("Batch prediction failed: ", ends)

\* refresh_injuries (lines 284-324)
refresh_injuries(ends) ==
    IF ends.kind = "raises" /\ IsValueError(ends.type)
    THEN HTTPException(502, <<"", ends.text>>)
    ELSE except_exception("Injury refresh failed: ", ends)

\* refresh_nfl_data (lines 327-350)
refresh_nfl_data(ends) ==
    IF ends.kind = "raises" /\ ends.type = "FileNotFoundError"
    THEN HTTPException(500, <<"nflData.txt not generated. Check scrape output.", "">>)
    ELSE except_exception("NFL data refresh failed: ", ends)

\* get_qb_rankings (lines 353-504)
get_qb_rankings(ends) == except_exception("Failed to get QB rankings: ", ends)

\* get_team_offense_rankings (lines 507-574)
get_team_offense_rankings(ends) == except_exception("Failed to get team rankings: ", ends)

Endpoints ==
    {"/api/data/status", "/api/teams", "/api/matchup", "/api/batch",
     "/api/refresh/injuries", "/api/refresh/data",
     "/api/fantasy/qb-rankings", "/api/fantasy/team-offense"}

\* The route table: the function app.get / app.post registered for the path.
Route(endpoint, ends) ==
    CASE endpoint = "/api/data/status" -> get_data_status(ends)
      [] endpoint = "/api/teams" -> get_teams(ends)
      [] endpoint = "/api/matchup" -> predict_matchup(ends)
      [] endpoint = "/api/batch" -> run_batch_prediction(ends)
      [] endpoint = "/api/refresh/injuries" -> refresh_injuries(ends)
      [] endpoint = "/api/refresh/data" -> refresh_nfl_data(ends)
      [] endpoint = "/api/fantasy/qb-rankings" -> get_qb_rankings(ends)
      [] endpoint = "/api/fantasy/team-offense" -> get_team_offense_rankings(ends)

InitEndpoints == ApiQuiet /\ DataQuiet /\ StatsQuiet

\* One request: the endpoint's callable ends as `ends`, the endpoint answers.
ApiRequest(endpoint, ends) ==
    /\ called' = [fn |-> endpoint, ends |-> ends]
    /\ response' = Route(endpoint, ends)
    /\ UNCHANGED schedule
    /\ UNCHANGED apiVars
    /\ UNCHANGED dataVars

NextEndpoints ==
    /\ called = NoCall
    /\ \E endpoint \in Endpoints, ends \in CallableEnds : ApiRequest(endpoint, ends)

SpecEndpoints == InitEndpoints /\ [][NextEndpoints]_vars

\* The request failed: its callable raised.
RequestFailed == called.fn \in Endpoints /\ called.ends.kind = "raises"

\* C15: every failed request is answered by a handler of the endpoint with
\* status 400 or 500 and a detail that carries the exception's string.
C15_FailuresAre400Or500 ==
    RequestFailed =>
        /\ response.handled
        /\ response.status \in {400, 500}
        /\ response.detail[2] = called.ends.text

\* What the code does: a failure is answered with 400, 500 or 502; the only
\* exceptions that leave an endpoint unhandled are those of /api/teams; and
\* the exception's string is in the detail except for those and for the
\* FileNotFoundError of /api/refresh/data.
C15_StatusesOfFailures ==
    RequestFailed =>
        /\ response.status \in {400, 500, 502}
        /\ response.status = 502 <=>
              (called.fn = "/api/refresh/injuries" /\ IsValueError(called.ends.type))
        /\ response.status = 400 <=>
              (called.fn = "/api/matchup" /\ IsValueError(called.ends.type))
        /\ ~response.handled <=> called.fn = "/api/teams"
        /\ response.detail[2] # called.ends.text <=>
              \/ called.fn = "/api/teams"
              \/ called.fn = "/api/refresh/data" /\ called.ends.type = "FileNotFoundError"

\* The injury API is down: /api/refresh/injuries answers 502.
C15_BadGateway ==
    /\ called.fn = "/api/refresh/injuries"
    /\ called.ends = Raises("ValueError", "Injury API returned no data.")
    /\ response.status = 502

\* An exception of read_nfl_data leaves /api/teams unhandled.
C15_Escapes ==
    /\ called.fn = "/api/teams"
    /\ called.ends.kind = "raises"
    /\ ~response.handled

---------------------------------------------------------------------------
(***************************************************************************)
(* Part VII: the scoreboard request of a batch prediction                  *)
(* (src/api/server.py:257-281, src/NFL/batch_predict.py:21-33, 82-123)     *)
(* next to the one of the extractor (src/NFL/dataextract.py:6-33).         *)
(***************************************************************************)

\* The last week a batch can be asked for: the Super Bowl, stored as week 22.
MaxWeek == 22

SeasonTypes == {"preseason", "regular", "postseason"}

\* params of get_games_for_week(season_type, week_num)
\* (src/NFL/dataextract.py:16-33)
extract_params(season_type, week_num) ==
    IF week_num >= 19 /\ week_num <= 22
    THEN [seasontype |-> 3, week |-> week_num - 18]
    ELSE [seasontype |-> IF season_type = "preseason" THEN 1
                         ELSE IF season_type = "postseason" THEN 3
                         ELSE 2,
          week |-> week_num]

\* A get_upcoming_games that maps the weeks as get_games_for_week does.
get_upcoming_games_as_extractor(week_num, season_type) ==
    extract_params(season_type, week_num)

\* params of get_upcoming_games(week_num, season_type)
\* (src/NFL/batch_predict.py:27-33)
get_upcoming_games(week_num, season_type) ==
    [seasontype |-> IF season_type = "preseason" THEN 1 ELSE 2,
     week |-> week_num]

\* season_type of _batch (src/api/server.py:260-263)
batch_season_type(week, season_type) ==
    IF week >= 19 /\ week <= 22 THEN "postseason" ELSE season_type

InitBatch == ApiQuiet /\ DataQuiet /\ StatsQuiet

\* POST /api/batch: _batch calls batch_predict_week(week, season_type), which
\* requests the week's scoreboard through get_upcoming_games (line 123).
run_batch(week, season_type, use_ml) ==
    /\ called' = [fn |-> "/api/batch", week |-> week, season_type |-> season_type,
                  use_ml |-> use_ml]
    /\ response' = [requested |-> "scoreboard",
                    params |-> get_upcoming_games(week, batch_season_type(week, season_type))]
    /\ UNCHANGED schedule
    /\ UNCHANGED apiVars
    /\ UNCHANGED dataVars

NextBatch ==
    /\ called = NoCall
    /\ \E week \in 1..MaxWeek, season_type \in SeasonTypes, use_ml \in BOOLEAN :
          run_batch(week, season_type, use_ml)

SpecBatch == InitBatch /\ [][NextBatch]_vars

\* C16: a batch request for week 19 to 22 fetches the scoreboard with season
\* type 3 and the postseason week (week - 18), as get_games_for_week does.
C16_PostseasonSchedule ==
    (called.fn = "/api/batch" /\ called.week \in 19..22) =>
        /\ response.params = [seasontype |-> 3, week |-> called.week - 18]
        /\ response.params = extract_params("postseason", called.week)

\* What the code does: season type 2 (regular) with the week as given.
C16_RegularTypeRequested ==
    (called.fn = "/api/batch" /\ called.week \in 19..22) =>
        response.params = [seasontype |-> 2, week |-> called.week]

\* For the weeks up to 18 of the preseason and the regular season the batch
\* request and the extractor's request are the same.
C16_SameBelowWeek19 ==
    (called.fn = "/api/batch" /\ called.week < 19 /\ called.season_type # "postseason") =>
        response.params = extract_params(called.season_type, called.week)

\* The wild-card week was asked for.
C16_WildCardRequested ==
    /\ called.fn = "/api/batch"
    /\ called.week = 19
    /\ response.params.seasontype = 2

---------------------------------------------------------------------------
(***************************************************************************)
(* Part VIII: build_training_dataset (src/NFL/ml_predictor.py:258-319).    *)
(* Of a sample the teams and the label are kept (game_info's home_team and *)
(* away_team, y's home_won); the feature vector is not.                    *)
(***************************************************************************)

\* not team_avg or team_avg['games_played'] < 3 (lines 271, 290) is false
eligible(avg) == avg.returned = "dict" /\ avg.games_played >= 3

\* A team's games the loop goes through: none when the team is skipped at
\* line 271-272, else its games that are not preseason games (line 274).
team_games(team, data, team_avg) ==
    IF ~eligible(team_avg) THEN <<>>
    ELSE Each(SelectSeq(data.rows[team], LAMBDA g : ~g.preseason),
              LAMBDA g : <<team, g>>)

RECURSIVE games_in_order(_, _)
\* for team in teams_data.keys(): ... for game in games: the pairs
\* <<team, game>> in the order the two loops reach them
games_in_order(data, k) ==
    IF k > Len(data.keys) THEN <<>>
    ELSE team_games(data.keys[k], data, calculate_team_averages(data.keys[k], data, TRUE))
            \o games_in_order(data, k + 1)

\* game_id: the two team names, sorted (lines 279-281)
game_id(team, opponent) == {team, opponent}

\* The sample of one game seen from `team` (lines 293-315)
sample(team, game) ==
    IF game.location = "home"
    THEN [home_team |-> team, away_team |-> game.opponent,
          home_won |-> IF game.result = "W" THEN 1 ELSE 0]
    ELSE [home_team |-> game.opponent, away_team |-> team,
          home_won |-> IF game.result = "L" THEN 1 ELSE 0]

RECURSIVE samples_from(_, _, _)
\* The body of the inner loop (lines 276-315) over the games left, with
\* processed_games as it stands
samples_from(work, processed_games, data) ==
    IF work = <<>> THEN <<>>
    ELSE IF game_id(Head(work)[1], Head(work)[2].opponent) \in processed_games
    THEN samples_from(Tail(work), processed_games, data)
    ELSE (IF eligible(calculate_team_averages(Head(work)[2].opponent, data, TRUE))
          THEN <<sample(Head(work)[1], Head(work)[2])>>
          ELSE <<>>)
            \o samples_from(Tail(work),
                            processed_games \cup {game_id(Head(work)[1], Head(work)[2].opponent)},
                            data)

\* build_training_dataset(teams_data): an exception of any of its calls of
\* calculate_team_averages leaves it, else it returns the samples
build_training_dataset(data) ==
    IF \E t \in DOMAIN data.rows :
          calculate_team_averages(t, data, TRUE).returned \notin {"dict", "None"}
    THEN FirstRaised([k \in 1..Len(data.keys) |->
                         calculate_team_averages(data.keys[k], data, TRUE)])
    ELSE [returned |-> "samples",
          game_info |-> samples_from(games_in_order(data, 1), {}, data)]

InitTrain == InitStats

\* build_training_dataset(teams_data) on the parsed file
BuildTrainingDataset ==
    /\ called = NoCall
    /\ called' = [fn |-> "build_training_dataset"]
    /\ response' = build_training_dataset(DataOf("NFL", schedule))
    /\ UNCHANGED <<apiVars, dataVars, schedule>>

NextTrain == BuildTrainingDataset

SpecTrain == InitTrain /\ [][NextTrain]_vars

\* The decided games of the file of that kind ("REGULAR", "POSTSEASON") in
\* which away_team played at home_team.
GamesPlayed(kinds, away_team, home_team) ==
    {i \in 1..Len(schedule) :
        /\ Season[schedule[i]].week \in kinds
        /\ Season[schedule[i]].away_team = away_team
        /\ Season[schedule[i]].home_team = home_team
        /\ Season[schedule[i]].away_score # Season[schedule[i]].home_score}

\* The games of the file a team's averages count (all but the preseason).
GamesOf(team) ==
    UNION {GamesPlayed({"REGULAR", "POSTSEASON"}, team, u) \cup
           GamesPlayed({"REGULAR", "POSTSEASON"}, u, team) : u \in Teams}

\* The team has at least 3 games.
Eligible(team) == Cardinality(GamesOf(team)) >= 3

\* The samples of away_team at home_team.
SamplesOf(away_team, home_team) ==
    {k \in 1..Len(response.game_info) :
        /\ response.game_info[k].away_team = away_team
        /\ response.game_info[k].home_team = home_team}

\* C17: the dataset holds exactly one sample per regular-season game between
\* two eligible teams: as many samples of a at h as a played
\* regular-season games at h.
C17_OneSamplePerGame ==
    (called.fn = "build_training_dataset" /\ response.returned = "samples") =>
        \A a, h \in Teams :
            (a # h /\ Eligible(a) /\ Eligible(h)) =>
                Cardinality(SamplesOf(a, h)) = Cardinality(GamesPlayed({"REGULAR"}, a, h))

\* What the code does: one sample per PAIR of eligible teams that met
\* outside the preseason, whatever the number of their games, and none for
\* any other pair.
C17_OneSamplePerPair ==
    (called.fn = "build_training_dataset" /\ response.returned = "samples") =>
        \A t, u \in Teams :
            t # u =>
                Cardinality(SamplesOf(t, u)) + Cardinality(SamplesOf(u, t))
                    = IF /\ Eligible(t) /\ Eligible(u)
                         /\ GamesOf(t) \cap GamesOf(u) # {}
                      THEN 1 ELSE 0

\* Two eligible teams met twice in the regular season and the dataset holds
\* one sample of the two games.
C17_RematchDropped ==
    /\ called.fn = "build_training_dataset"
    /\ response.returned = "samples"
    /\ \E t, u \in Teams :
          /\ t # u /\ Eligible(t) /\ Eligible(u)
          /\ GamesPlayed({"REGULAR"}, t, u) # {}
          /\ GamesPlayed({"REGULAR"}, u, t) # {}
          /\ Cardinality(SamplesOf(t, u)) + Cardinality(SamplesOf(u, t)) = 1

---------------------------------------------------------------------------
(***************************************************************************)
(* Part IX: the post-hoc calibration of predict_game_ml                    *)
(* (src/NFL/ml_predictor.py:398-530, 556-579).  The adjustments and the    *)
(* raw probability are in thousandths; the calibrated probability is kept  *)
(* exactly, in units of 10^-9 (two products of thousandths).               *)
(***************************************************************************)

\* The raw probabilities tried are the multiples of 1 / ProbSteps.
ProbSteps == 20

RawProbabilities == {k * (1000 \div ProbSteps) : k \in 0..ProbSteps}

MIN_PROB == 50000000

MAX_PROB == 950000000

\* detect_qb_change (lines 398-445) on what it derives from the team's last
\* three games: their number, the spread of the QB ratings and of the YPA
\* (0 when fewer than two games carry the figure), the games with QB stats.
detect_qb_change(recent_games, rating_diff, ypa_diff, games_with_qb) ==
    IF recent_games < 2 THEN 0
    ELSE IF rating_diff > 40000 THEN 120
    ELSE IF ypa_diff > 3000 THEN 100
    ELSE IF games_with_qb < recent_games THEN 80
    ELSE 0

\* calculate_uncertainty_adjustment (lines 448-504) on what it derives from
\* its arguments: the mean deviation of the recent scores (0 when it is not
\* computed), the two differences and the count of extreme features.
calculate_uncertainty_adjustment(avg_std, form_diff, extreme_features, win_rate_diff) ==
    Min((IF avg_std > 15000 THEN 100 ELSE IF avg_std > 10000 THEN 60 ELSE 0)
          + (IF form_diff > 700 THEN 80 ELSE IF form_diff > 500 THEN 50 ELSE 0)
          + (IF extreme_features > 5 THEN 80 ELSE IF extreme_features > 3 THEN 50 ELSE 0)
          + (IF win_rate_diff > 400 THEN 60 ELSE 0),
        250)

\* calibrated_prob * (1 - factor) + 0.5 * factor when factor > 0 (lines
\* 516-522); half is 0.5 in the unit of calibrated_prob, and the result has
\* one more factor of 1000 in its unit.
pulled(calibrated_prob, half, factor) ==
    IF factor > 0 THEN calibrated_prob * (1000 - factor) + half * factor
    ELSE calibrated_prob * 1000

\* max(MIN_PROB, min(MAX_PROB, calibrated_prob)) (line 528)
capped(calibrated_prob) ==
    IF calibrated_prob > MAX_PROB THEN MAX_PROB
    ELSE IF calibrated_prob < MIN_PROB THEN MIN_PROB
    ELSE calibrated_prob

\* A calibration that pushes away from 0.5 by the same factors.
sharpen_probability(home_win_prob, uncertainty_adjustment, qb_change_adjustment) ==
    home_win_prob * 1000000
        + (home_win_prob - 500) * 1000 * (2 * uncertainty_adjustment + qb_change_adjustment)

\* apply_probability_calibration (lines 507-530)
apply_probability_calibration(home_win_prob, uncertainty_adjustment, qb_change_adjustment) ==
    capped(pulled(pulled(home_win_prob, 500, uncertainty_adjustment * 2),
                  500000, qb_change_adjustment))

\* What detect_qb_change looks at, one case per branch: too few games, a
\* rating spread above 40, a YPA spread above 3.0, a game without QB stats,
\* nothing of the kind.
QbSigns ==
    { <<1, 0, 0, 1>>, <<3, 45200, 1100, 3>>, <<3, 21500, 3400, 3>>,
      <<3, 0, 0, 1>>, <<3, 12000, 900, 3>> }

\* What calculate_uncertainty_adjustment looks at, on both sides of each of
\* its thresholds.
Volatilities ==
    {0, 12500, 17300} \X {0, 667, 1000} \X {0, 4, 7} \X {125, 625}

InitCalib == ApiQuiet /\ DataQuiet /\ StatsQuiet

\* predict_game_ml, lines 556-579: the raw probability of the model, the two
\* QB-change adjustments, the uncertainty adjustment, the calibration.
Calibrate(raw_home_win_prob, home_qb, away_qb, volatility) ==
    /\ called' = [fn |-> "predict_game_ml",
                  raw_home_win_prob |-> raw_home_win_prob,
                  qb_change_adjustment |->
                      (detect_qb_change(home_qb[1], home_qb[2], home_qb[3], home_qb[4])
                        + detect_qb_change(away_qb[1], away_qb[2], away_qb[3], away_qb[4])) \div 2,
                  uncertainty_adj |->
                      calculate_uncertainty_adjustment(volatility[1], volatility[2],
                                                       volatility[3], volatility[4])]
    /\ response' =
          [returned |-> "float",
           home_win_prob |->
              apply_probability_calibration(
                  raw_home_win_prob,
                  calculate_uncertainty_adjustment(volatility[1], volatility[2],
                                                   volatility[3], volatility[4]),
                  (detect_qb_change(home_qb[1], home_qb[2], home_qb[3], home_qb[4])
                    + detect_qb_change(away_qb[1], away_qb[2], away_qb[3], away_qb[4])) \div 2)]
    /\ UNCHANGED schedule
    /\ UNCHANGED apiVars
    /\ UNCHANGED dataVars

NextCalib ==
    /\ called = NoCall
    /\ \E raw_home_win_prob \in RawProbabilities, home_qb \in QbSigns,
          away_qb \in QbSigns, volatility \in Volatilities :
          Calibrate(raw_home_win_prob, home_qb, away_qb, volatility)

SpecCalib == InitCalib /\ [][NextCalib]_vars

\* The distance from 0.5 of a probability given in units of 10^-9.
FromHalf(prob) == Abs(prob - 500000000)

\* C18: the calibrated probability is no farther from 0.5 than the raw one
\* and never on the other side of 0.5.
C18_ShrinksTowardHalf ==
    called.fn = "predict_game_ml" =>
        /\ FromHalf(response.home_win_prob) <= FromHalf(called.raw_home_win_prob * 1000000)
        /\ called.raw_home_win_prob >= 500 => response.home_win_prob >= 500000000
        /\ called.raw_home_win_prob <= 500 => response.home_win_prob <= 500000000

\* A raw probability above 0.8 with both adjustments at work came out
\* strictly between 0.5 and the raw value.
C18_Witness ==
    /\ called.fn = "predict_game_ml"
    /\ called.raw_home_win_prob > 800
    /\ called.uncertainty_adj > 0
    /\ called.qb_change_adjustment > 0
    /\ response.home_win_prob > 500000000
    /\ response.home_win_prob < called.raw_home_win_prob * 1000000

---------------------------------------------------------------------------
(***************************************************************************)
(* Part X: from the predicted points to the confidence percentage          *)
(* (src/NFL/predictor.py:1883-1906, src/NFL/predict_matchup.py:55-68,      *)
(* src/NFL/batch_predict.py:220-246, src/CFB/predictor.py:1280-1292,       *)
(* src/CFB/batch_predict.py:119-133, src/MLB/predictor.py:850-862).        *)
(* Points are in thousandths; a confidence is the exact quotient           *)
(* <<numerator, denominator>> of a percentage.                             *)
(***************************************************************************)

\* The predicted points tried are the multiples of 0.5 up to MaxPoints / 2.
MaxPoints == 16

PredictedPoints == {500 * k : k \in 0..MaxPoints}

\* min(diff / per * 100, cap), diff being in thousandths
capped_confidence(diff, per, cap) ==
    IF diff > cap * per * 10 THEN <<cap, 1>> ELSE <<diff, per * 10>>

\* The same line for every difference, a tie included.
linear_confidence(home_points, away_points, per, cap) ==
    capped_confidence(Abs(home_points - away_points), per, cap)

\* if home_points > away_points: ... elif away_points > home_points: ...
\* else: 50
confidence(home_points, away_points, per, cap) ==
    IF home_points > away_points THEN capped_confidence(home_points - away_points, per, cap)
    ELSE IF away_points > home_points THEN capped_confidence(away_points - home_points, per, cap)
    ELSE <<50, 1>>

\* The programs that turn the heuristic scorer's points into a confidence.
Drivers ==
    {"NFL/predictor.py", "NFL/predict_matchup.py", "NFL/batch_predict.py",
     "CFB/predictor.py", "CFB/batch_predict.py", "MLB/predictor.py"}

\* The confidence each of them reports: diff / 6 * 100 capped at 95 in the
\* football programs, diff / 5 * 100 capped at 92 in the MLB predictor.
driver_confidence(driver, home_points, away_points) ==
    IF driver = "MLB/predictor.py" THEN confidence(home_points, away_points, 5, 92)
    ELSE confidence(home_points, away_points, 6, 95)

InitConf == ApiQuiet /\ DataQuiet /\ StatsQuiet

\* A driver reports the prediction of one game.
Report(driver, home_points, away_points) ==
    /\ called' = [fn |-> driver, home_points |-> home_points, away_points |-> away_points]
    /\ response' = [returned |-> "confidence",
                    confidence |-> driver_confidence(driver, home_points, away_points)]
    /\ UNCHANGED schedule
    /\ UNCHANGED apiVars
    /\ UNCHANGED dataVars

NextConf ==
    /\ called = NoCall
    /\ \E driver \in Drivers, home_points \in PredictedPoints, away_points \in PredictedPoints :
          Report(driver, home_points, away_points)

SpecConf == InitConf /\ [][NextConf]_vars

\* Two quotients are the same number.
SameQuotient(p, q) == p[1] * q[2] = q[1] * p[2]

\* C19: in every driver the confidence is
\* min(|home_points - away_points| / 6 * 100, 95), and it never exceeds 95.
C19_OneLinearFormula ==
    called.fn \in Drivers =>
        /\ SameQuotient(response.confidence,
                        linear_confidence(called.home_points, called.away_points, 6, 95))
        /\ response.confidence[1] <= 95 * response.confidence[2]

\* What the code does: that formula in the football drivers when the points
\* differ, the line diff / 5 * 100 capped at 92 in the MLB predictor, and 50
\* for equal points everywhere; never above 95.
C19_FormulaPerDriver ==
    called.fn \in Drivers =>
        /\ response.confidence[1] <= 95 * response.confidence[2]
        /\ SameQuotient(response.confidence,
              IF called.home_points = called.away_points THEN <<50, 1>>
              ELSE IF called.fn = "MLB/predictor.py"
              THEN linear_confidence(called.home_points, called.away_points, 5, 92)
              ELSE linear_confidence(called.home_points, called.away_points, 6, 95))

\* The MLB predictor reports 60% for a difference of 3 runs.
C19_MlbLine ==
    /\ called.fn = "MLB/predictor.py"
    /\ called.home_points - called.away_points = 3000
    /\ SameQuotient(response.confidence, <<60, 1>>)

\* A football driver reports 50% for equal points.
C19_TossUp ==
    /\ called.fn = "NFL/batch_predict.py"
    /\ called.home_points = called.away_points
    /\ response.confidence = <<50, 1>>

---------------------------------------------------------------------------
(***************************************************************************)
(* Part XI: calculate_team_averages called repeatedly on the same parsed   *)
(* data (src/NFL/predictor.py:494-795).  teams_data holds the dict the     *)
(* calls are made on; a call records the dict it was given and the call    *)
(* made before it.                                                         *)
(***************************************************************************)

\* Calls of calculate_team_averages in a row.
MaxCalls == 2

\* A calculate_team_averages that filters the team's list in place
\* (teams_data[team][:] = [g for g in games if not g['preseason']]).
filtered_in_place(team, data, regular_only) ==
    IF team \in DOMAIN data.rows /\ regular_only
    THEN [data EXCEPT !.rows[team] = SelectSeq(@, LAMBDA g : ~g.preseason)]
    ELSE data

\* teams_data after calculate_team_averages(team, teams_data, regular_only):
\* `games` is rebound to a new list at line 504, every other list the
\* function appends to is a local one, no record is assigned into.
teams_data_after(team, data, regular_only) == data

InitPure ==
    /\ ApiQuiet
    /\ completed = {}
    /\ nflData = NoFile
    /\ all_games = <<>>
    /\ runs = 0
    /\ schedule \in Schedules
    /\ teams_data = [returned |-> "dict", data |-> DataOf("NFL", schedule)]
    /\ called = NoCall
    /\ response = NoResult

\* The call made before this one, if any, and what it returned.
Earlier ==
    IF called = NoCall THEN <<>>
    ELSE <<[team |-> called.team, regular_only |-> called.regular_only,
            response |-> response]>>

\* calculate_team_averages(team, teams_data, regular_only)
CallTeamAverages(team, regular_only) ==
    /\ runs < MaxCalls
    /\ called' = [fn |-> "calculate_team_averages", team |-> team,
                  regular_only |-> regular_only,
                  teams_data |-> teams_data.data, earlier |-> Earlier]
    /\ response' = calculate_team_averages(team, teams_data.data, regular_only)
    /\ teams_data' = [teams_data EXCEPT
                         !.data = teams_data_after(team, teams_data.data, regular_only)]
    /\ runs' = runs + 1
    /\ UNCHANGED <<completed, nflData, all_games, schedule>>
    /\ UNCHANGED apiVars

NextPure ==
    \E team \in Teams \cup {Rams}, regular_only \in BOOLEAN :
        CallTeamAverages(team, regular_only)

SpecPure == InitPure /\ [][NextPure]_vars

MaxInjuries == 2

InjuryTeams == {<<"A", "l", "a", "b", "a", "m", "a">>, <<"O", "h", "i", "o", " ", "S", "t", "a", "t", "e">>}

InjuryPlayers == {<<"J", "o", "h", "n", " ", "D", "o", "e">>, <<"P", "l", "a", "y", "e", "r", " ", "O", "n", "e">>}

InjuryPositions == {<<"Q", "B">>, <<"W", "R">>}

InjuryStatuses == {<<"O", "U", "T">>, <<"Q", "U", "E", "S", "T", "I", "O", "N", "A", "B", "L", "E">>}

InjuryEntries ==
    [player : InjuryPlayers, position : InjuryPositions, status : InjuryStatuses]

\* "Player Name - Position - Status"
injury_line(entry) ==
    entry.player \o <<" ", "-", " ">> \o entry.position \o <<" ", "-", " ">> \o entry.status \o <<"\n">>

\* "Team Name" followed by the lines of its injured players
injury_block(team, entries) ==
    <<team \o <<"\n">>>> \o Each(entries, injury_line)

RECURSIVE injury_lines(_)
\* The lines of a file that lists the blocks one after another
injury_lines(blocks) ==
    IF blocks = <<>> THEN <<>>
    ELSE injury_block(blocks[1].team, blocks[1].entries) \o injury_lines(Tail(blocks))

\* The entries lists of at most n injured players
EntryLists(n) == UNION {[1..k -> InjuryEntries] : k \in 0..n}

\* The files in the documented format: one team with up to MaxInjuries
\* players, or two teams with up to one player each.
InjuryFileBlocks ==
    {<<[team |-> t, entries |-> es]>> : t \in InjuryTeams, es \in EntryLists(MaxInjuries)}
        \cup {<<[team |-> <<"A", "l", "a", "b", "a", "m", "a">>, entries |-> e1],
                [team |-> <<"O", "h", "i", "o", " ", "S", "t", "a", "t", "e">>, entries |-> e2]>> :
                    e1 \in EntryLists(1), e2 \in EntryLists(1)}

\* current_team not in injuries: injuries[current_team] = []
with_team(injuries, team) ==
    IF team \in DOMAIN injuries THEN injuries
    ELSE [k \in DOMAIN injuries \cup {team} |->
             IF k = team THEN <<>> ELSE injuries[k]]

\* injuries[current_team].append({'player': parts[0], 'position': parts[1],
\*                                'status': parts[2]})
with_entry(injuries, team, parts) ==
    [injuries EXCEPT ![team] = Append(@, [player |-> parts[1],
                                          position |-> parts[2],
                                          status |-> parts[3]])]

\* One round of the loop over the lines, on the stripped line; state holds
\* injuries and current_team (<<>> for None).
injury_round(state, line) ==
    IF line # <<>> /\ ~StartsWith(line, <<"-">>) /\ ~StartsWith(line, <<"P", "l", "a", "y", "e", "r">>)
    THEN [injuries |-> with_team(state.injuries, line), current_team |-> line]
    ELSE IF line # <<>> /\ Contains(line, <<"-">>) /\ state.current_team # <<>>
    THEN LET parts == Each(Split(line, <<"-">>), Strip)
         IN  IF Len(parts) >= 3
             THEN [state EXCEPT
                      !.injuries = with_entry(@, state.current_team, parts)]
             ELSE state
    ELSE state

RECURSIVE injury_loop(_, _)
\* for line in lines: line = line.strip() ...
injury_loop(state, lines) ==
    IF lines = <<>> THEN state
    ELSE injury_loop(injury_round(state, Strip(lines[1])), Tail(lines))

\* get_injury_data() of CFB/injuryextract.py on the file injuries_current.txt
get_injury_data(file) ==
    IF ~file.exists THEN [returned |-> "dict", data |-> EmptyDict]
    ELSE [returned |-> "dict",
          data |-> injury_loop([injuries |-> EmptyDict, current_team |-> <<>>],
                               file.lines).injuries]

InitInjuryFile == ApiQuiet /\ DataQuiet /\ StatsQuiet

\* get_injury_data() with the file holding the blocks
ReadInjuries(blocks) ==
    /\ called' = [fn |-> "get_injury_data", exists |-> TRUE, blocks |-> blocks]
    /\ response' = get_injury_data([exists |-> TRUE, lines |-> injury_lines(blocks)])
    /\ UNCHANGED schedule
    /\ UNCHANGED apiVars
    /\ UNCHANGED dataVars

\* get_injury_data() with no injuries_current.txt in the directory
ReadNoInjuries ==
    /\ called' = [fn |-> "get_injury_data", exists |-> FALSE, blocks |-> <<>>]
    /\ response' = get_injury_data(NoFile)
    /\ UNCHANGED schedule
    /\ UNCHANGED apiVars
    /\ UNCHANGED dataVars

NextInjuryFile ==
    /\ called = NoCall
    /\ \/ \E blocks \in InjuryFileBlocks : ReadInjuries(blocks)
       \/ ReadNoInjuries

SpecInjuryFile == InitInjuryFile /\ [][NextInjuryFile]_vars

\* The mapping the documented format describes: each team to the entries
\* listed beneath it.
Listed(blocks) ==
    [team \in {blocks[k].team : k \in 1..Len(blocks)} |->
        (CHOOSE b \in {blocks[k] : k \in 1..Len(blocks)} : b.team = team).entries]

\* C21: get_injury_data parses a file written in the documented format into
\* the mapping from each team to the (player, position, status) entries
\* listed beneath it.
C21_ParsesDocumentedFormat ==
    (called.fn = "get_injury_data" /\ called.exists) =>
        response.data = Listed(called.blocks)

\* What the code does with such a file: every team is a key; every player
\* line that does not begin with 'Player' is taken as a team header and is a
\* key with nothing beneath it, and no entry of such a line is in any list.
C21_PlayerLinesAreTeams ==
    (called.fn = "get_injury_data" /\ called.exists) =>
        \A k \in 1..Len(called.blocks) :
            /\ called.blocks[k].team \in DOMAIN response.data
            /\ \A i \in 1..Len(called.blocks[k].entries) :
                  LET entry == called.blocks[k].entries[i]
                  IN  ~StartsWith(entry.player, <<"P", "l", "a", "y", "e", "r">>) =>
                          /\ Strip(injury_line(entry)) \in DOMAIN response.data
                          /\ \A key \in DOMAIN response.data :
                                \A j \in 1..Len(response.data[key]) :
                                    response.data[key][j] # entry

\* A team with a player listed beneath it is parsed as a team with no
\* injuries.
C21_EntriesLost ==
    /\ called.fn = "get_injury_data"
    /\ called.exists
    /\ called.blocks[1].entries # <<>>
    /\ response.data[called.blocks[1].team] = <<>>

\* The line 'John Doe - QB - OUT' is a key of the parsed mapping.
C21_LineIsTeam ==
    /\ called.fn = "get_injury_data"
    /\ called.exists
    /\ <<"J", "o", "h", "n", " ", "D", "o", "e", " ", "-", " ", "Q", "B", " ", "-", " ", "O", "U", "T">> \in DOMAIN response.data

\* A player of one team is parsed as an entry of the line above it.
C21_EntryUnderPlayerLine ==
    /\ called.fn = "get_injury_data"
    /\ called.exists
    /\ \E key \in DOMAIN response.data :
          /\ key \notin InjuryTeams
          /\ response.data[key] # <<>>

(***************************************************************************)
(* Part XIII.  The weather impact of MLB/weather.py.  Impacts are in        *)
(* thousandths of a point.                                                  *)
(***************************************************************************)

\* The highest temperature (in F) and the highest wind speed (in mph) of the
\* conditions checked.
MaxTemp == 100

MaxWind == 24

Temperatures == {t \in 40..MaxTemp : t % 5 = 0 \/ t % 5 = 4}

WindSpeeds == {w \in 0..MaxWind : w % 4 = 0 \/ w % 4 = 3}

\* winddir16Point values of the weather service, and the 'Out' the code
\* also looks for
WindDirs == {<<"N">>, <<"E", "N", "E">>, <<"S">>, <<"S", "S", "W">>, <<"O", "u", "t">>}

Humidities == {30, 69, 70, 100}

\* precipMM, in tenths of a millimetre
Precipitations == {0, 1, 25}

\* park_info.get('roof'): the roof of the park table, or None
Roofs == {"open", "retractable", "dome", "None"}

WeatherData ==
    [temp_f : Temperatures, wind_speed_mph : WindSpeeds, wind_dir : WindDirs,
     humidity : Humidities, precipitation : Precipitations]

\* 'Out' in wind_dir or 'S' in wind_dir
blowing_out(wind_dir) == Contains(wind_dir, <<"O", "u", "t">>) \/ Contains(wind_dir, <<"S">>)

temperature_impact(temp) ==
    IF temp >= 85 THEN 1500 ELSE IF temp >= 75 THEN 500
    ELSE IF temp <= 50 THEN -1000 ELSE 0

temperature_notes(temp) ==
    IF temp >= 85 THEN <<"Hot weather favors offense">>
    ELSE IF temp >= 75 THEN <<"Warm weather slightly favors offense">>
    ELSE IF temp <= 50 THEN <<"Cold weather reduces offense">> ELSE <<>>

wind_impact(wind_speed, wind_dir) ==
    IF wind_speed >= 20 THEN (IF blowing_out(wind_dir) THEN 2000 ELSE -2000)
    ELSE IF wind_speed >= 12 THEN (IF blowing_out(wind_dir) THEN 1000 ELSE -1000)
    ELSE 0

\* The notes on the wind; the strong-wind notes are f-strings that hold the
\* speed.
wind_notes(wind_speed, wind_dir) ==
    IF wind_speed >= 20
    THEN (IF blowing_out(wind_dir)
          THEN <<[text |-> "Strong wind ({wind_speed} mph) blowing OUT - big offense boost!",
                  wind_speed |-> wind_speed]>>
          ELSE <<[text |-> "Strong wind ({wind_speed} mph) blowing IN - offense reduced",
                  wind_speed |-> wind_speed]>>)
    ELSE IF wind_speed >= 12
    THEN (IF blowing_out(wind_dir) THEN <<"Moderate wind blowing out">>
          ELSE <<"Moderate wind blowing in">>)
    ELSE <<>>

humidity_impact(humidity) == IF humidity >= 70 THEN 500 ELSE 0

humidity_notes(humidity) ==
    IF humidity >= 70 THEN <<"High humidity helps ball carry">> ELSE <<>>

precipitation_impact(precipitation) == IF precipitation > 0 THEN -1000 ELSE 0

precipitation_notes(precipitation) ==
    IF precipitation > 0 THEN <<"Rain expected - reduces offense">> ELSE <<>>

\* The impact of the conditions under the open sky
outdoor_impact(weather_data) ==
    temperature_impact(weather_data.temp_f)
        + wind_impact(weather_data.wind_speed_mph, weather_data.wind_dir)
        + humidity_impact(weather_data.humidity)
        + precipitation_impact(weather_data.precipitation)

outdoor_notes(weather_data) ==
    temperature_notes(weather_data.temp_f)
        \o wind_notes(weather_data.wind_speed_mph, weather_data.wind_dir)
        \o humidity_notes(weather_data.humidity)
        \o precipitation_notes(weather_data.precipitation)

\* calculate_weather_impact(weather_data, park_info) for weather data that
\* was fetched: the pair (impact, notes)
calculate_weather_impact(weather_data, roof) ==
    IF roof = "dome"
    THEN [returned |-> "tuple", impact |-> 0,
          notes |-> <<"Indoor dome - weather irrelevant">>]
    ELSE [returned |-> "tuple", impact |-> outdoor_impact(weather_data),
          notes |-> outdoor_notes(weather_data)]

\* calculate_weather_impact(None, park_info): 0.0
no_weather_impact == [returned |-> "float", impact |-> 0, notes |-> <<>>]

InitWeather == ApiQuiet /\ DataQuiet /\ StatsQuiet

WeatherImpact(weather_data, roof) ==
    /\ called' = [fn |-> "calculate_weather_impact", fetched |-> TRUE,
                  weather_data |-> weather_data, roof |-> roof]
    /\ response' = calculate_weather_impact(weather_data, roof)
    /\ UNCHANGED schedule
    /\ UNCHANGED apiVars
    /\ UNCHANGED dataVars

NoWeatherImpact(roof) ==
    /\ called' = [fn |-> "calculate_weather_impact", fetched |-> FALSE, roof |-> roof]
    /\ response' = no_weather_impact
    /\ UNCHANGED schedule
    /\ UNCHANGED apiVars
    /\ UNCHANGED dataVars

NextWeather ==
    /\ called = NoCall
    /\ \/ \E weather_data \in WeatherData, roof \in Roofs :
              WeatherImpact(weather_data, roof)
       \/ \E roof \in Roofs : NoWeatherImpact(roof)

SpecWeather == InitWeather /\ [][NextWeather]_vars

\* C22: the impact score calculate_weather_impact returns is within
\* [-3.0, +3.0] for every temperature, wind speed and direction, humidity,
\* precipitation and roof.
C22_ImpactWithinThree ==
    called.fn = "calculate_weather_impact" =>
        (response.impact >= -3000 /\ response.impact <= 3000)

\* What the code keeps the score within: [-4.0, +4.0], and 0 under a dome.
C22_ImpactWithinFour ==
    called.fn = "calculate_weather_impact" =>
        /\ response.impact >= -4000
        /\ response.impact <= 4000
        /\ called.roof = "dome" => response.impact = 0

\* A hot, humid day with a strong wind blowing out and no rain: +4.0.
C22_PlusFour ==
    /\ called.fn = "calculate_weather_impact"
    /\ called.fetched
    /\ called.weather_data.temp_f >= 85
    /\ called.weather_data.wind_speed_mph >= 20
    /\ response.impact = 4000

\* A cold, rainy day with a strong wind blowing in: -4.0.
C22_MinusFour ==
    /\ called.fn = "calculate_weather_impact"
    /\ called.fetched
    /\ called.weather_data.temp_f <= 50
    /\ called.weather_data.precipitation > 0
    /\ response.impact = -4000

---------------------------------------------------------------------------
(***************************************************************************)
(* Part XIV.  How often nflData.txt records a game after runs of main()    *)
(* and update_mode() (src/NFL/dataextract.py:367-504), and how often       *)
(* read_nfl_data counts it.                                                *)
(***************************************************************************)

\* How many of the lines are this line.
Occurrences(line, lines) == Cardinality({k \in 1..Len(lines) : lines[k] = line})

\* No line of the list occurs twice.
AllDistinct(lines) == \A j, k \in 1..Len(lines) : lines[j] = lines[k] => j = k

\* Two records of one team's list are records of the same game.
SameGame(rec, other) ==
    /\ rec.week = other.week
    /\ rec.opponent = other.opponent
    /\ rec.location = other.location

\* C23: after any sequence of full extractions and update_mode runs the file
\* records each game at most once, and no team's parsed list counts a game
\* twice.
C23_EachGameOnce ==
    /\ AllDistinct(GameLinesOf(nflData))
    /\ \A t \in DOMAIN teams_data.data :
          \A j, k \in 1..Len(teams_data.data[t]) :
              SameGame(teams_data.data[t][j], teams_data.data[t][k]) => j = k

\* What the runs do keep: the file of a single run has each game once, and
\* every further run adds a game at most once more.
C23_OncePerRun ==
    LET lines == GameLinesOf(nflData)
    IN  /\ runs <= 1 => AllDistinct(lines)
        /\ \A k \in 1..Len(lines) : Occurrences(lines[k], lines) <= runs

\* After an extraction and an update the file holds a game line twice.
C23_TwiceInFile ==
    /\ runs = 2
    /\ ~AllDistinct(GameLinesOf(nflData))

\* A team's parsed list counts one game twice.
C23_CountedTwice ==
    /\ teams_data.returned = "dict"
    /\ \E t \in DOMAIN teams_data.data :
          \E j, k \in 1..Len(teams_data.data[t]) :
              j < k /\ SameGame(teams_data.data[t][j], teams_data.data[t][k])

---------------------------------------------------------------------------
(***************************************************************************)
(* Part XV.  Incremental updating of the college-football and baseball     *)
(* flat files (src/CFB/dataextract.py, src/MLB/dataextract.py).  In this   *)
(* part the variable nflData holds the flat file of the sport under        *)
(* extraction (cfbData.txt or mlbData.txt), completed the games of that    *)
(* sport's catalogue the API reports as final, and called the sport and    *)
(* the last run.                                                           *)
(***************************************************************************)

Alabama == <<"A", "l", "a", "b", "a", "m", "a", " ", "C", "r", "i", "m", "s", "o", "n", " ", "T", "i", "d", "e">>

OhioState == <<"O", "h", "i", "o", " ", "S", "t", "a", "t", "e", " ", "B", "u", "c", "k", "e", "y", "e", "s">>

Texas == <<"T", "e", "x", "a", "s", " ", "L", "o", "n", "g", "h", "o", "r", "n", "s">>

\* The college games: the scoreboard bucket of each and what the summary
\* endpoint returns for it once it is final.
CfbCatalogue ==
    << [seasontype |-> 2, week |-> 1,
        away_team |-> TeamInfo(Alabama, 21, FALSE, TRUE),
        home_team |-> TeamInfo(Texas, 14, FALSE, TRUE)],
       [seasontype |-> 2, week |-> 2,
        away_team |-> TeamInfo(OhioState, 35, FALSE, FALSE),
        home_team |-> TeamInfo(Alabama, 28, FALSE, TRUE)],
       [seasontype |-> 2, week |-> 2,
        away_team |-> TeamInfo(Texas, 10, FALSE, TRUE),
        home_team |-> TeamInfo(OhioState, 13, FALSE, TRUE)],
       [seasontype |-> 3, week |-> 1,
        away_team |-> TeamInfo(Texas, 17, FALSE, TRUE),
        home_team |-> TeamInfo(Alabama, 24, FALSE, TRUE)] >>

\* get_games_for_week(season_type, week_num, year) of the CFB extractor
cfb_get_games_for_week(season_type, week_num) ==
    LET season_type_num == IF season_type = "preseason" THEN 1
                           ELSE IF season_type = "postseason" THEN 3 ELSE 2
    IN  SortedIds({g \in completed : /\ CfbCatalogue[g].seasontype = season_type_num
                                     /\ CfbCatalogue[g].week = week_num})

\* f"POSTSEASON_WEEK_{week_num}" if season_type == 'postseason' else f"WEEK_{week_num}"
cfb_week_label(season_type, week_num) ==
    IF season_type = "postseason" THEN <<"P", "O", "S", "T", "S", "E", "A", "S", "O", "N", "_", "W", "E", "E", "K", "_">> \o IntToStr(week_num)
    ELSE <<"W", "E", "E", "K", "_">> \o IntToStr(week_num)

\* The dict appended for one game id in both loops
cfb_game_data(season_type, week_num, g) ==
    [week |-> cfb_week_label(season_type, week_num),
     away_team |-> CfbCatalogue[g].away_team,
     home_team |-> CfbCatalogue[g].home_team,
     status |-> <<"F", "i", "n", "a", "l">>]

RECURSIVE cfb_scrape_weeks(_)
\* for season_type, week_num in weeks: every completed game of the week
cfb_scrape_weeks(weeks) ==
    IF weeks = <<>> THEN <<>>
    ELSE LET game_ids == cfb_get_games_for_week(weeks[1][1], weeks[1][2])
         IN  [k \in 1..Len(game_ids) |->
                 cfb_game_data(weeks[1][1], weeks[1][2], game_ids[k])]
                 \o cfb_scrape_weeks(Tail(weeks))

\* weeks_config of scrape_cfb_season
cfb_weeks_config == WeekRange("regular", 0, 16) \o WeekRange("postseason", 1, 4)

scrape_cfb_season == cfb_scrape_weeks(cfb_weeks_config)

\* "  AWAY (name):" / "  HOME (name):" and the three stat lines of a team
CfbStatLines(side, team) ==
    LET stats == Get(team, "stats", EmptyDict)
    IN  << <<" ", " ">> \o side \o <<" ", "(">> \o team.name \o <<")", ":">>,
           <<" ", " ", " ", " ", "T", "o", "t", "a", "l", " ", "Y", "a", "r", "d", "s", ":", " ">> \o Get(stats, "totalYards", <<"0">>)
               \o <<" ", "|", " ", "Y", "a", "r", "d", "s", "/", "P", "l", "a", "y", ":", " ">> \o Get(stats, "yardsPerPlay", <<"0">>)
               \o <<" ", "|", " ", "P", "o", "s", "s", "e", "s", "s", "i", "o", "n", ":", " ">> \o Get(stats, "possessionTime", <<"0", ":", "0", "0">>),
           <<" ", " ", " ", " ", "P", "a", "s", "s", "i", "n", "g", ":", " ">> \o Get(stats, "netPassingYards", <<"0">>)
               \o <<"y", "d", "s", " ", "|", " ", "R", "u", "s", "h", "i", "n", "g", ":", " ">> \o Get(stats, "rushingYards", <<"0">>)
               \o <<"y", "d", "s", " ", "|", " ", "1", "s", "t", " ", "D", "o", "w", "n", "s", ":", " ">> \o Get(stats, "firstDowns", <<"0">>),
           <<" ", " ", " ", " ", "3", "r", "d", " ", "D", "o", "w", "n", ":", " ">> \o Get(stats, "thirdDownEff", <<"0", "-", "0">>)
               \o <<" ", "|", " ", "T", "u", "r", "n", "o", "v", "e", "r", "s", ":", " ">> \o Get(stats, "turnovers", <<"0">>)
               \o <<" ", "|", " ", "S", "a", "c", "k", "s", ":", " ">> \o SacksField(stats) >>

RECURSIVE CfbGameLines(_, _)
\* The loop both writers run over the games: a week header whenever the
\* label changes, the game line, the two team blocks and a blank line.
CfbGameLines(games, current_week) ==
    IF games = <<>> THEN <<>>
    ELSE LET game == Head(games)
         IN  (IF game.week # current_week THEN WeekHeader(game.week) ELSE <<>>)
                 \o <<GameLine(game)>>
                 \o CfbStatLines(<<"A", "W", "A", "Y">>, game.away_team)
                 \o CfbStatLines(<<"H", "O", "M", "E">>, game.home_team)
                 \o << <<>> >>
                 \o CfbGameLines(Tail(games), game.week)

\* write_to_file(games) of the CFB extractor
cfb_write_to_file(games) ==
    <<<<"C", "o", "l", "l", "e", "g", "e", " ", "F", "o", "o", "t", "b", "a", "l", "l", " ", "G", "a", "m", "e", " ", "D", "a", "t", "a", " ", "-", " ", "L", "a", "s", "t", " ", "U", "p", "d", "a", "t", "e", "d", ":", " ", "2", "0", "2", "4", "-", "0", "9", "-", "1", "0", " ", "0", "8", ":", "0", "0", ":", "0", "0">>, Rule, <<>>>>
        \o (IF games = <<>> THEN <<<<"N", "o", " ", "g", "a", "m", "e", " ", "d", "a", "t", "a", " ", "a", "v", "a", "i", "l", "a", "b", "l", "e", ".">>>>
            ELSE CfbGameLines(games, <<>>)
                   \o << <<>>, Rule, <<"T", "o", "t", "a", "l", " ", "g", "a", "m", "e", "s", " ", "r", "e", "c", "o", "r", "d", "e", "d", ":", " ">> \o IntToStr(Len(games)) >>)

\* get_last_week_from_file() of the CFB extractor
cfb_get_last_week_from_file(file) ==
    LET lines == file.lines
        hits == {i \in 1..Len(lines) :
                    /\ Contains(lines[i], <<"W", "E", "E", "K", "_">>) \/ Contains(lines[i], <<"P", "O", "S", "T", "S", "E", "A", "S", "O", "N">>)
                    /\ ~Contains(lines[i], <<"[">>)
                    /\ ~Contains(lines[i], <<"=">>)}
        last == CHOOSE i \in hits : \A j \in hits : j <= i
        last_week == Strip(lines[last])
        pieces == Split(last_week, <<"_">>)
        week_num == IntVal(pieces[Len(pieces)])
    IN  IF ~file.exists \/ hits = {} \/ last_week = <<>>
        THEN [found |-> FALSE]
        ELSE IF Contains(last_week, <<"P", "O", "S", "T", "S", "E", "A", "S", "O", "N">>)
        THEN [found |-> TRUE, season_type |-> "postseason", week_num |-> week_num]
        ELSE [found |-> TRUE, season_type |-> "regular", week_num |-> week_num]

\* weeks_to_scrape of the CFB update_mode
cfb_weeks_to_scrape(season_type, last_week_num) ==
    IF season_type = "regular"
    THEN WeekRange("regular", last_week_num + 1, 16) \o WeekRange("postseason", 1, 4)
    ELSE WeekRange("postseason", last_week_num + 1, 4)

\* The file a CFB update_mode run leaves for the last week it found: the new
\* games appended, or the file as it was when there is none
cfb_update_file(file, last) ==
    LET new_games == cfb_scrape_weeks(cfb_weeks_to_scrape(last.season_type, last.week_num))
    IN  IF new_games = <<>> THEN file
        ELSE FileOf(file.lines \o CfbGameLines(new_games, <<>>))

\* update_mode() of the CFB extractor: the file it leaves
cfb_update_mode(file) ==
    LET last == cfb_get_last_week_from_file(file)
    IN  IF ~last.found THEN FileOf(cfb_write_to_file(scrape_cfb_season))
        ELSE cfb_update_file(file, last)

Yankees == <<"N", "e", "w", " ", "Y", "o", "r", "k", " ", "Y", "a", "n", "k", "e", "e", "s">>

Dodgers == <<"L", "o", "s", " ", "A", "n", "g", "e", "l", "e", "s", " ", "D", "o", "d", "g", "e", "r", "s">>

Mets == <<"N", "e", "w", " ", "Y", "o", "r", "k", " ", "M", "e", "t", "s">>

\* A team's statistics dict as the MLB get_game_details stores it.
MlbSampleStats ==
    [runs |-> <<"4">>, hits |-> <<"9">>, errors |-> <<"1">>, avg |-> <<".", "2", "5", "1">>, obp |-> <<".", "3", "2", "0">>,
     slg |-> <<".", "4", "1", "0">>, homeRuns |-> <<"2">>, rbi |-> <<"4">>, leftOnBase |-> <<"7">>]

\* The baseball games: the scoreboard day that lists each and the game_info
\* the summary endpoint gives once it is final (the score is an int; 'stats'
\* only when the box score lists the team).
MlbCatalogue ==
    << [dates |-> <<"2", "0", "2", "5", "0", "4", "3", "0">>, game_date |-> <<"2", "0", "2", "5", "-", "0", "4", "-", "3", "0", "T", "1", "7", ":", "0", "5", "Z">>,
        away_team |-> [name |-> Yankees, score |-> 4, stats |-> MlbSampleStats],
        home_team |-> [name |-> Mets, score |-> 2]],
       [dates |-> <<"2", "0", "2", "5", "0", "5", "0", "1">>, game_date |-> <<"2", "0", "2", "5", "-", "0", "5", "-", "0", "1", "T", "1", "7", ":", "1", "0", "Z">>,
        away_team |-> [name |-> Dodgers, score |-> 0],
        home_team |-> [name |-> Yankees, score |-> 4, stats |-> MlbSampleStats]],
       [dates |-> <<"2", "0", "2", "5", "0", "5", "0", "1">>, game_date |-> <<"2", "0", "2", "5", "-", "0", "5", "-", "0", "1", "T", "2", "3", ":", "4", "0", "Z">>,
        away_team |-> [name |-> Mets, score |-> 11],
        home_team |-> [name |-> Dodgers, score |-> 10]],
       [dates |-> <<"2", "0", "2", "5", "1", "0", "0", "1">>, game_date |-> <<"2", "0", "2", "5", "-", "1", "0", "-", "0", "1", "T", "2", "0", ":", "0", "8", "Z">>,
        away_team |-> [name |-> Mets, score |-> 3, stats |-> MlbSampleStats],
        home_team |-> [name |-> Yankees, score |-> 4, stats |-> MlbSampleStats]] >>

\* get_games_for_date(date_str, year): the ids of the day's completed games
get_games_for_date(date_str) ==
    SortedIds({g \in completed : MlbCatalogue[g].dates = date_str})

\* f"{n:02d}"
TwoDigits(n) == IF n < 10 THEN <<"0">> \o IntToStr(n) ELSE IntToStr(n)

\* [f"{year}{m:02d}{d:02d}" for d in range(start_day, max_days + 1)]
month_dates(year, m, start_day, max_days) ==
    [k \in 1..(max_days - start_day + 1) |->
        IntToStr(year) \o TwoDigits(m) \o TwoDigits(start_day + k - 1)]

\* months of scrape_mlb_season and of update_mode: (month, days)
months ==
    << <<3, 31>>, <<4, 30>>, <<5, 31>>, <<6, 30>>,
       <<7, 31>>, <<8, 31>>, <<9, 30>>, <<10, 31>> >>

RECURSIVE season_dates(_, _)
\* dates_to_scrape of scrape_mlb_season: every day of the listed months
season_dates(year, left) ==
    IF left = <<>> THEN <<>>
    ELSE month_dates(year, left[1][1], 1, left[1][2]) \o season_dates(year, Tail(left))

RECURSIVE dates_after(_, _, _, _)
\* dates_to_scrape of update_mode: months before the last date's are skipped,
\* its own month starts at day + 1, later months at 1
dates_after(year, month, day, left) ==
    IF left = <<>> THEN <<>>
    ELSE IF left[1][1] < month THEN dates_after(year, month, day, Tail(left))
    ELSE month_dates(year, left[1][1], IF left[1][1] = month THEN day + 1 ELSE 1,
                     left[1][2])
             \o dates_after(year, month, day, Tail(left))

RECURSIVE mlb_scrape_range(_, _, _)
\* for date_str in dates_to_scrape: the game_info of every completed game of
\* the day (the list is halved rather than walked; the result is the same)
mlb_scrape_range(dates, lo, hi) ==
    IF lo > hi THEN <<>>
    ELSE IF lo = hi
    THEN LET game_ids == get_games_for_date(dates[lo])
         IN  [k \in 1..Len(game_ids) |->
                 [away_team |-> MlbCatalogue[game_ids[k]].away_team,
                  home_team |-> MlbCatalogue[game_ids[k]].home_team,
                  game_date |-> MlbCatalogue[game_ids[k]].game_date]]
    ELSE LET mid == (lo + hi) \div 2
         IN  mlb_scrape_range(dates, lo, mid) \o mlb_scrape_range(dates, mid + 1, hi)

\* scrape_mlb_season(), for year = 2025
scrape_mlb_season ==
    LET dates_to_scrape == season_dates(2025, months)
    IN  mlb_scrape_range(dates_to_scrape, 1, Len(dates_to_scrape))

\* "  AWAY (name):" / "  HOME (name):" and the three stat lines of a team
MlbStatLines(side, team) ==
    LET stats == Get(team, "stats", EmptyDict)
    IN  << <<" ", " ">> \o side \o <<" ", "(">> \o team.name \o <<")", ":">>,
           <<" ", " ", " ", " ", "R", "u", "n", "s", ":", " ">> \o Get(stats, "runs", <<"0">>)
               \o <<" ", "|", " ", "H", "i", "t", "s", ":", " ">> \o Get(stats, "hits", <<"0">>)
               \o <<" ", "|", " ", "E", "r", "r", "o", "r", "s", ":", " ">> \o Get(stats, "errors", <<"0">>),
           <<" ", " ", " ", " ", "B", "a", "t", "t", "i", "n", "g", " ", "A", "v", "g", ":", " ">> \o Get(stats, "avg", <<".", "0", "0", "0">>)
               \o <<" ", "|", " ", "O", "B", "P", ":", " ">> \o Get(stats, "obp", <<".", "0", "0", "0">>)
               \o <<" ", "|", " ", "S", "L", "G", ":", " ">> \o Get(stats, "slg", <<".", "0", "0", "0">>),
           <<" ", " ", " ", " ", "H", "R", ":", " ">> \o Get(stats, "homeRuns", <<"0">>)
               \o <<" ", "|", " ", "R", "B", "I", ":", " ">> \o Get(stats, "rbi", <<"0">>)
               \o <<" ", "|", " ", "L", "O", "B", ":", " ">> \o Get(stats, "leftOnBase", <<"0">>) >>

\* f"{away['name']} @ {home['name']} | {away['score']}-{home['score']}"
MlbGameLine(game) ==
    game.away_team.name \o <<" ", "@", " ">> \o game.home_team.name \o <<" ", "|", " ">>
        \o IntToStr(game.away_team.score) \o <<"-">> \o IntToStr(game.home_team.score)

MlbGameBlock(game) ==
    <<MlbGameLine(game)>> \o MlbStatLines(<<"A", "W", "A", "Y">>, game.away_team)
        \o MlbStatLines(<<"H", "O", "M", "E">>, game.home_team) \o << <<>> >>

RECURSIVE MlbBlocks(_)
MlbBlocks(games) ==
    IF games = <<>> THEN <<>> ELSE MlbGameBlock(games[1]) \o MlbBlocks(Tail(games))

\* game['game_date'][:10]
date_of(game) == SubSeq(game.game_date, 1, Min(10, Len(game.game_date)))

\* The place of a 'YYYY-MM-DD' key in sorted(): the number YYYYMMDD
DateKey(date) == IntVal(Remove(date, <<"-">>))

RECURSIVE MlbDateLines(_, _)
\* for date in sorted(games_by_date.keys()): the date header and the blocks
\* of the games of that date, in the order they were scraped
MlbDateLines(games, dates) ==
    IF dates = {} THEN <<>>
    ELSE LET date == CHOOSE d \in dates : \A e \in dates : DateKey(d) <= DateKey(e)
         IN  <<<<>>, Rule, <<"D", "A", "T", "E", ":", " ">> \o date, Rule, <<>>>>
                 \o MlbBlocks(SelectSeq(games, LAMBDA game : date_of(game) = date))
                 \o MlbDateLines(games, dates \ {date})

\* games_by_date and the loop over its sorted keys, of both writers
mlb_games_by_date(games) ==
    MlbDateLines(games, {date_of(games[k]) : k \in 1..Len(games)})

\* write_to_file(games) of the MLB extractor
mlb_write_to_file(games) ==
    <<<<"M", "L", "B", " ", "G", "a", "m", "e", " ", "D", "a", "t", "a", " ", "-", " ", "L", "a", "s", "t", " ", "U", "p", "d", "a", "t", "e", "d", ":", " ", "2", "0", "2", "5", "-", "0", "5", "-", "0", "1", " ", "2", "2", ":", "0", "0", ":", "0", "0">>, Rule, <<>>>>
        \o (IF games = <<>> THEN <<<<"N", "o", " ", "g", "a", "m", "e", " ", "d", "a", "t", "a", " ", "a", "v", "a", "i", "l", "a", "b", "l", "e", ".">>>>
            ELSE mlb_games_by_date(games)
                   \o << <<>>, Rule, <<"T", "o", "t", "a", "l", " ", "g", "a", "m", "e", "s", " ", "r", "e", "c", "o", "r", "d", "e", "d", ":", " ">> \o IntToStr(Len(games)) >>)

\* get_last_date_from_file(): the date of the last 'DATE:' line as YYYYMMDD;
\* found = FALSE for None and for an empty string (`if not last_date`)
get_last_date_from_file(file) ==
    LET lines == file.lines
        hits == {i \in 1..Len(lines) : Contains(lines[i], <<"D", "A", "T", "E", ":">>)}
        last == CHOOSE i \in hits : \A j \in hits : j <= i
        date_str == Strip(Split(lines[last], <<"D", "A", "T", "E", ":">>)[2])
        last_date == Remove(date_str, <<"-">>)
    IN  IF ~file.exists \/ hits = {} \/ last_date = <<>> THEN [found |-> FALSE]
        ELSE [found |-> TRUE, last_date |-> last_date]

\* dates_to_scrape of update_mode for the last date of the file
mlb_dates_to_scrape(last_date) ==
    dates_after(IntVal(SubSeq(last_date, 1, 4)), IntVal(SubSeq(last_date, 5, 6)),
                IntVal(SubSeq(last_date, 7, Len(last_date))), months)

\* The file an MLB update_mode run leaves for the last date it found
mlb_update_file(file, last_date) ==
    LET dates_to_scrape == mlb_dates_to_scrape(last_date)
        new_games == mlb_scrape_range(dates_to_scrape, 1, Len(dates_to_scrape))
    IN  IF new_games = <<>> THEN file
        ELSE FileOf(file.lines \o mlb_games_by_date(new_games))

\* update_mode() of the MLB extractor: the file it leaves
mlb_update_mode(file) ==
    LET last == get_last_date_from_file(file)
    IN  IF ~last.found THEN FileOf(mlb_write_to_file(scrape_mlb_season))
        ELSE mlb_update_file(file, last.last_date)

IncrSports == {"CFB", "MLB"}

\* The game ids of either catalogue.
IncrIds == DOMAIN CfbCatalogue

InitIncr ==
    /\ ApiQuiet
    /\ DataQuiet
    /\ schedule = <<>>
    /\ response = NoResult
    /\ \E sport \in IncrSports : called = [fn |-> "none", sport |-> sport]

\* main() of the sport's extractor: games = scrape...(); write_to_file(games)
IncrMain ==
    /\ runs < MaxRuns
    /\ nflData' = FileOf(IF called.sport = "CFB" THEN cfb_write_to_file(scrape_cfb_season)
                         ELSE mlb_write_to_file(scrape_mlb_season))
    /\ called' = [fn |-> "main", sport |-> called.sport, completed |-> completed,
                  before |-> nflData, last |-> [found |-> FALSE]]
    /\ runs' = runs + 1
    /\ UNCHANGED <<completed, all_games, teams_data, schedule, response>>
    /\ UNCHANGED apiVars

\* update_mode() of the sport's extractor; called keeps what the run found as
\* the file's last bucket, the file before the run and the games that were
\* final when it ran.
IncrUpdate ==
    /\ runs < MaxRuns
    /\ nflData' = IF called.sport = "CFB" THEN cfb_update_mode(nflData)
                  ELSE mlb_update_mode(nflData)
    /\ called' = [fn |-> "update_mode", sport |-> called.sport, completed |-> completed,
                  before |-> nflData,
                  last |-> IF called.sport = "CFB" THEN cfb_get_last_week_from_file(nflData)
                           ELSE get_last_date_from_file(nflData)]
    /\ runs' = runs + 1
    /\ UNCHANGED <<completed, all_games, teams_data, schedule, response>>
    /\ UNCHANGED apiVars

NextIncr ==
    \/ \E g \in IncrIds : CompleteGame(g)
    \/ IncrMain
    \/ IncrUpdate

SpecIncr == InitIncr /\ [][NextIncr]_vars

\* The line the writers emit for a game of the sport's catalogue.
LineOf(sport, g) ==
    IF sport = "CFB"
    THEN GameLine(cfb_game_data(IF CfbCatalogue[g].seasontype = 3 THEN "postseason"
                                ELSE "regular", CfbCatalogue[g].week, g))
    ELSE MlbGameLine(MlbCatalogue[g])

\* The flat file holds the game.
InFile(sport, g, file) ==
    \E k \in 1..Len(file.lines) : file.lines[k] = LineOf(sport, g)

\* The game's bucket comes after the last bucket the run found in the file.
AfterLast(sport, g, last) ==
    IF sport = "CFB"
    THEN \/ CfbCatalogue[g].seasontype = 3 /\ last.season_type = "regular"
         \/ /\ (CfbCatalogue[g].seasontype = 3) = (last.season_type = "postseason")
            /\ CfbCatalogue[g].week > last.week_num
    ELSE IntVal(MlbCatalogue[g].dates) > IntVal(last.last_date)

\* C24: every game that was final when an update_mode run of the CFB or the
\* MLB extractor executed is in the flat file after that run, whichever
\* week or date it belongs to.
C24_NoGameLost ==
    called.fn = "update_mode" =>
        \A g \in called.completed : InFile(called.sport, g, nflData)

\* What an update_mode run does keep: the file's previous content, and the
\* final games of the buckets after the last one the file names (every final
\* game when the file names none and the run is a full extraction).
C24_LaterBucketsKept ==
    called.fn = "update_mode" =>
        /\ called.last.found => IsPrefix(called.before, nflData)
        /\ \A g \in called.completed :
              (called.last.found => AfterLast(called.sport, g, called.last))
                  => InFile(called.sport, g, nflData)

\* College football: a game of the last recorded week that became final
\* after that week was written is not in the file after the update.
C24_LastWeekGameLost ==
    /\ called.fn = "update_mode"
    /\ called.sport = "CFB"
    /\ called.last.found
    /\ called.last.season_type = "regular"
    /\ \E g \in called.completed :
          /\ CfbCatalogue[g].seasontype = 2
          /\ CfbCatalogue[g].week = called.last.week_num
          /\ ~InFile("CFB", g, nflData)

\* Baseball: a game of the last recorded date that became final after that
\* date was written is not in the file after the update.
C24_LastDateGameLost ==
    /\ called.fn = "update_mode"
    /\ called.sport = "MLB"
    /\ called.last.found
    /\ \E g \in called.completed :
          /\ MlbCatalogue[g].dates = called.last.last_date
          /\ ~InFile("MLB", g, nflData)

\* An update appended the games of a later bucket.
C24_LaterGameAppended ==
    /\ called.fn = "update_mode"
    /\ called.last.found
    /\ \E g \in called.completed :
          /\ AfterLast(called.sport, g, called.last)
          /\ ~InFile(called.sport, g, called.before)
          /\ InFile(called.sport, g, nflData)

---------------------------------------------------------------------------
(***************************************************************************)
(* Part XVI.  The fallback estimates of calculate_team_averages for a game *)
(* without QB stats (src/NFL/predictor.py:565-579).                        *)
(***************************************************************************)

\* ypa as lines 601-605 compute it from a game's own passing stats
game_ypa(g) ==
    LET pass_yds == Get(g.off_stats, "passingYards", 0)
        comp_rate == Get(g.off_stats, "completionRate", 0)
        attempts == Quot(pass_yds, Prod(comp_rate, 7500))
    IN  IF comp_rate > 0 THEN (IF attempts > 0 THEN Quot(pass_yds, attempts) ELSE 0)
        ELSE 0

\* The estimates of lines 566-576 for game g, given the values the locals
\* ypa and pts hold when the branch is entered
fallback_estimates(g, ypa, pts) ==
    LET ints == Get(g.off_stats, "interceptions", 0)
        rz_rate == Get(g.off_stats, "redZoneRate", 500)
        est_tds == Prod(Quot(pts, 7000), rz_rate)
    IN  [ypa |-> ypa,
         td_int_ratio |-> IF ints >= 0 THEN Quot(est_tds, ints + 500) ELSE 2000]

InitFallback == InitStats

\* calculate_team_averages(team, teams_data, regular_only) on the parsed
\* file, for a team it has records of: the games it counts, what it returns
\* and the state its QB loop ends in
QbLoop(team, regular_only) ==
    /\ called = NoCall
    /\ team \in DOMAIN DataOf("NFL", schedule).rows
    /\ called' = [fn |-> "calculate_team_averages", team |-> team,
                  regular_only |-> regular_only,
                  games |-> counted_games(team, DataOf("NFL", schedule), regular_only)]
    /\ response' = [result |-> calculate_team_averages(team, DataOf("NFL", schedule),
                                                       regular_only),
                    loop |-> qb_loop(counted_games(team, DataOf("NFL", schedule),
                                                   regular_only),
                                     Len(counted_games(team, DataOf("NFL", schedule),
                                                       regular_only)))]
    /\ UNCHANGED <<apiVars, dataVars, schedule>>

NextFallback == \E team \in Teams, regular_only \in BOOLEAN : QbLoop(team, regular_only)

SpecFallback == InitFallback /\ [][NextFallback]_vars

\* The game has no QB stats: `'qb_stats' in g and g['qb_stats']` is false.
NoQbStats(g) == DOMAIN g.qb_stats = {}

\* C25: for a game without QB stats, at any position of the list (the first
\* included), the fallback YPA and TD/INT ratio are defined and are computed
\* from that game's own passing and scoring stats.
C25_FallbackFromOwnGame ==
    called.fn = "calculate_team_averages" =>
        /\ ~response.loop.raised
        /\ \A k \in 1..Len(called.games) :
              NoQbStats(called.games[k]) =>
                  LET own == fallback_estimates(called.games[k], game_ypa(called.games[k]),
                                                called.games[k].score_for * 1000)
                  IN  /\ response.loop.qb_ypa_vals[k] = own.ypa
                      /\ response.loop.qb_td_int_ratio_vals[k] = own.td_int_ratio

\* The first game of the list without QB stats that follows no other game.
FirstIsFallback(games) == games # <<>> /\ NoQbStats(games[1])

\* What the code does: the call raises UnboundLocalError exactly when the
\* first counted game has no QB stats; otherwise the estimates of a game
\* without QB stats are computed from the YPA and the points of the game
\* before it in the list.
C25_FallbackFromPreviousGame ==
    called.fn = "calculate_team_averages" =>
        /\ response.loop.raised = FirstIsFallback(called.games)
        /\ response.loop.raised => response.result = Raised("UnboundLocalError")
        /\ ~response.loop.raised =>
              \A k \in 2..Len(called.games) :
                  NoQbStats(called.games[k]) =>
                      LET prev == fallback_estimates(called.games[k],
                                                     game_ypa(called.games[k - 1]),
                                                     called.games[k - 1].score_for * 1000)
                      IN  /\ response.loop.qb_ypa_vals[k] = prev.ypa
                          /\ response.loop.qb_td_int_ratio_vals[k] = prev.td_int_ratio

\* The first counted game has no QB stats and the call raised.
C25_FirstGameRaises ==
    /\ called.fn = "calculate_team_averages"
    /\ FirstIsFallback(called.games)
    /\ response.result = Raised("UnboundLocalError")

\* A later game without QB stats got the YPA of the game before it, which is
\* not its own.
C25_PreviousGameUsed ==
    /\ called.fn = "calculate_team_averages"
    /\ ~response.loop.raised
    /\ \E k \in 2..Len(called.games) :
          /\ NoQbStats(called.games[k])
          /\ response.loop.qb_ypa_vals[k] = game_ypa(called.games[k - 1])
          /\ response.loop.qb_ypa_vals[k] # game_ypa(called.games[k])

---------------------------------------------------------------------------
(***************************************************************************)
(* Part XVII.  The keys advanced_prediction reads from the injury-impact   *)
(* dicts (src/NFL/predictor.py:1074-1186, 1755-1803;                       *)
(* src/CFB/predictor.py:616-716, 1142-1189).                               *)
(***************************************************************************)

\* calculate_injury_impact of the sport's injuryextract.py (None: the empty
\* dict)
ImpactOf(sport, team, injury_data) ==
    IF sport = "NFL" THEN calculate_injury_impact(team, injury_data)
    ELSE cfb_calculate_injury_impact(team, injury_data)

\* advanced_prediction reads a key the injury-impact dicts lack: the report
\* of a team prints its dict when it is truthy, the injury rule reads both
\* when both are.
InjuryKeyMissing(home_injury_impact, away_injury_impact, report_keys, rule_keys) ==
    \/ DOMAIN home_injury_impact # {} /\ ReadsMissing(home_injury_impact, report_keys)
    \/ DOMAIN away_injury_impact # {} /\ ReadsMissing(away_injury_impact, report_keys)
    \/ /\ DOMAIN home_injury_impact # {}
       /\ DOMAIN away_injury_impact # {}
       /\ \/ ReadsMissing(home_injury_impact, rule_keys)
          \/ ReadsMissing(away_injury_impact, rule_keys)

\* The same for the call just made.
CallMissesInjuryKey ==
    InjuryKeyMissing(ImpactOf(called.sport, called.home_team, called.injury_data),
                     ImpactOf(called.sport, called.away_team, called.injury_data),
                     IF called.sport = "NFL" THEN InjuryReportKeys ELSE CfbInjuryReportKeys,
                     IF called.sport = "NFL" THEN InjuryRuleKeys ELSE CfbInjuryRuleKeys)

\* advanced_prediction was called for two teams with game data and a
\* non-empty injury_data.
PredictedWithInjuries ==
    /\ called.fn = "advanced_prediction"
    /\ DOMAIN called.injury_data # {}
    /\ called.home_team \in DOMAIN DataOf(called.sport, schedule).rows
    /\ called.away_team \in DOMAIN DataOf(called.sport, schedule).rows

\* C26: for any two teams with game data and any non-empty injury_data,
\* with or without an entry for each team, every key advanced_prediction
\* reads from the dicts of its sport's calculate_injury_impact is present,
\* so the call does not end in a KeyError on them (NFL and CFB).
C26_InjuryKeysPresent ==
    PredictedWithInjuries =>
        /\ ~CallMissesInjuryKey
        /\ response # Raised("KeyError")

\* What the code does: in the NFL a key is missing exactly when one of the
\* two teams has no entry in injury_data (its dict has no 'out', 'doubtful',
\* 'questionable'); in college football exactly when both teams have
\* injuries (no dict has 'key_injuries').
C26_WhenKeysAreMissing ==
    PredictedWithInjuries =>
        CallMissesInjuryKey =
            IF called.sport = "NFL"
            THEN \/ called.home_team \notin DOMAIN called.injury_data
                 \/ called.away_team \notin DOMAIN called.injury_data
            ELSE /\ called.home_team \in DOMAIN called.injury_data
                 /\ called.away_team \in DOMAIN called.injury_data
                 /\ called.injury_data[called.home_team] # <<>>
                 /\ called.injury_data[called.away_team] # <<>>

\* NFL: a team without an entry in injury_data, and the prediction ended in
\* a KeyError.
C26_NflKeyError ==
    /\ PredictedWithInjuries
    /\ called.sport = "NFL"
    /\ called.away_team \notin DOMAIN called.injury_data
    /\ response = Raised("KeyError")

\* College football: both teams have injuries, and the prediction ended in
\* a KeyError.
C26_CfbKeyError ==
    /\ PredictedWithInjuries
    /\ called.sport = "CFB"
    /\ called.home_team \in DOMAIN called.injury_data
    /\ called.away_team \in DOMAIN called.injury_data
    /\ response = Raised("KeyError")
=============================================================================
